---- MODULE Spec2Model ----
(***************************************************************************)
(* Pile world format and provider (oriumgames/pile).                       *)
(*                                                                         *)
(* Two state machines share this module:                                   *)
(*   SpecFormat - the format package: World / Chunk / Section model,       *)
(*                EncodeWorld and DecodeWorld at the level of bytes;       *)
(*   Spec       - the provider: three dimensions, settings, player spawns, *)
(*                dirty flag, load on construction and saves to disk.      *)
(* Bytes are naturals 0..255, byte strings are sequences of bytes, and a   *)
(* Go string is the sequence of its UTF-8 bytes.                           *)
(***************************************************************************)
EXTENDS Integers, Sequences, FiniteSets, TLC

(***************************************************************************)
(* Bounds of the model.                                                    *)
(***************************************************************************)
\* largest number of chunks a format world holds
MaxChunks == 2
\* largest number of sections of a format world (MaxSection - MinSection)
MaxSections == 2
\* largest number of chunks a provider world holds
MaxProvChunks == 1

(***************************************************************************)
(* Results of reads: st is "ok", "err" (an error value is returned) or     *)
(* "panic" (the Go runtime aborts the call).                               *)
(***************************************************************************)
Ok(v, rest) == [st |-> "ok", v |-> v, rest |-> rest]

Fail(st) == [st |-> st, v |-> <<>>, rest |-> <<>>]

Take(bs, n) == SubSeq(bs, 1, n)

Drop(bs, n) == SubSeq(bs, n + 1, Len(bs))

(***************************************************************************)
(* Binary primitives (binary.go).                                          *)
(***************************************************************************)
\* big-endian two's complement of an int32
WriteInt32(v) ==
  LET u == IF v >= 0 THEN v ELSE (v + 2147483647) + 1
      top == (u \div 16777216) + (IF v < 0 THEN 128 ELSE 0)
  IN  <<top, (u \div 65536) % 256, (u \div 256) % 256, u % 256>>

\* big-endian two's complement of an int64 whose value fits 32 bits
WriteInt64(v) ==
  (IF v < 0 THEN <<255, 255, 255, 255>> ELSE <<0, 0, 0, 0>>) \o WriteInt32(v)

RECURSIVE PutUvarint(_)
PutUvarint(ux) ==
  IF ux < 128 THEN <<ux>>
  ELSE <<(ux % 128) + 128>> \o PutUvarint(ux \div 128)

\* a varint written without the zig-zag step
WriteVarInt_NoZigZag(v) == PutUvarint(v)

\* binary.PutVarint: zig-zag, then unsigned LEB128
WriteVarInt(v) == PutUvarint(IF v >= 0 THEN 2 * v ELSE (-2 * v) - 1)

WriteString(s) == WriteVarInt(Len(s)) \o s

WriteBytes(data) == WriteVarInt(Len(data)) \o data

WriteByte(b) == <<b>>

\* an f32 is kept as its four IEEE-754 bytes, most significant first
WriteFloat32(f) == f

ReadInt32(bs) ==
  IF Len(bs) < 4 THEN Fail("err")
  ELSE LET low == ((bs[1] % 128) * 16777216) + (bs[2] * 65536) + (bs[3] * 256) + bs[4]
       IN  Ok(IF bs[1] >= 128 THEN (low - 2147483647) - 1 ELSE low, Drop(bs, 4))

\* an int64 outside the 32-bit range is kept as its eight bytes
ReadInt64(bs) ==
  IF Len(bs) < 8 THEN Fail("err")
  ELSE LET hi == Take(bs, 4)
           lo == ReadInt32(Drop(bs, 4))
       IN  IF (hi = <<0, 0, 0, 0>> /\ lo.v >= 0) \/ (hi = <<255, 255, 255, 255>> /\ lo.v < 0)
           THEN Ok(lo.v, Drop(bs, 8))
           ELSE Ok(Take(bs, 8), Drop(bs, 8))

ReadByte(bs) == IF Len(bs) < 1 THEN Fail("err") ELSE Ok(bs[1], Drop(bs, 1))

ReadFloat32(bs) == IF Len(bs) < 4 THEN Fail("err") ELSE Ok(Take(bs, 4), Drop(bs, 4))

\* binary.ReadUvarint; values of more than four groups of seven bits do not
\* occur in the model and are reported as an overflow error
RECURSIVE ReadUvarint(_, _)
ReadUvarint(bs, i) ==
  IF Len(bs) = 0 \/ i >= 4 THEN Fail("err")
  ELSE IF bs[1] < 128 THEN Ok(bs[1], Drop(bs, 1))
  ELSE LET r == ReadUvarint(Drop(bs, 1), i + 1)
       IN  IF r.st # "ok" THEN r ELSE Ok((bs[1] - 128) + (128 * r.v), r.rest)

\* binary.ReadVarint: undo the zig-zag
ReadVarInt(bs) ==
  LET r == ReadUvarint(bs, 0)
  IN  IF r.st # "ok" THEN r
      ELSE Ok(IF r.v % 2 = 1 THEN -((r.v \div 2) + 1) ELSE r.v \div 2, r.rest)

ReadString(bs) ==
  LET n == ReadVarInt(bs)
  IN  IF n.st # "ok" THEN n
      ELSE IF n.v < 0 \/ n.v > 1048576 THEN Fail("err")
      ELSE IF Len(n.rest) < n.v THEN Fail("err")
      ELSE Ok(Take(n.rest, n.v), Drop(n.rest, n.v))

ReadBytes(bs) ==
  LET n == ReadVarInt(bs)
  IN  IF n.st # "ok" THEN n
      ELSE IF n.v < 0 \/ n.v > 16777216 THEN Fail("err")
      ELSE IF Len(n.rest) < n.v THEN Fail("err")
      ELSE Ok(Take(n.rest, n.v), Drop(n.rest, n.v))

(***************************************************************************)
(* Strings of the format and the textual form of a UUID.                   *)
(***************************************************************************)
\* "minecraft:"
StrMinecraft == <<109, 105, 110, 101, 99, 114, 97, 102, 116, 58>>

\* "minecraft:air"
StrAir == StrMinecraft \o <<97, 105, 114>>

\* "minecraft:plains"
StrPlains == StrMinecraft \o <<112, 108, 97, 105, 110, 115>>

\* "minecraft:stone"
StrStone == StrMinecraft \o <<115, 116, 111, 110, 101>>

\* "minecraft:desert"
StrDesert == StrMinecraft \o <<100, 101, 115, 101, 114, 116>>

HexDigit(n) == IF n < 10 THEN 48 + n ELSE 87 + n

RECURSIVE HexOf(_)
HexOf(bs) ==
  IF bs = <<>> THEN <<>>
  ELSE <<HexDigit(bs[1] \div 16), HexDigit(bs[1] % 16)>> \o HexOf(Tail(bs))

\* uuid.UUID.String: xxxxxxxx-xxxx-xxxx-xxxx-xxxxxxxxxxxx, lower-case hex
UUIDString(u) ==
  HexOf(SubSeq(u, 1, 4)) \o <<45>> \o HexOf(SubSeq(u, 5, 6)) \o <<45>>
    \o HexOf(SubSeq(u, 7, 8)) \o <<45>> \o HexOf(SubSeq(u, 9, 10)) \o <<45>>
    \o HexOf(SubSeq(u, 11, 16))

HexValue(c) ==
  IF c >= 48 /\ c <= 57 THEN c - 48
  ELSE IF c >= 97 /\ c <= 102 THEN c - 87
  ELSE IF c >= 65 /\ c <= 70 THEN c - 55
  ELSE -1

NilUUID == [i \in 1..16 |-> 0]

UUIDOffsets == <<1, 3, 5, 7, 10, 12, 15, 17, 20, 22, 25, 27, 29, 31, 33, 35>>

\* uuid.Parse of the canonical 36-character form; the decoder drops the
\* error, so any other text yields the zero UUID
UUIDParse(s) ==
  IF Len(s) # 36 \/ s[9] # 45 \/ s[14] # 45 \/ s[19] # 45 \/ s[24] # 45 THEN NilUUID
  ELSE IF \E i \in 1..16 : HexValue(s[UUIDOffsets[i]]) < 0 \/ HexValue(s[UUIDOffsets[i] + 1]) < 0
       THEN NilUUID
  ELSE [i \in 1..16 |-> (16 * HexValue(s[UUIDOffsets[i]])) + HexValue(s[UUIDOffsets[i] + 1])]

(***************************************************************************)
(* The data model (format.go).                                             *)
(***************************************************************************)
CurrentVersion == 1

\* a nil *Section
NilSection ==
  [isNil |-> TRUE, BlockPalette |-> <<>>, BlockData |-> <<>>,
   BiomePalette |-> <<>>, BiomeData |-> <<>>]

Section(bp, bd, mp, md) ==
  [isNil |-> FALSE, BlockPalette |-> bp, BlockData |-> bd,
   BiomePalette |-> mp, BiomeData |-> md]

IsEmpty(s) ==
  Len(s.BlockPalette) = 0 \/ (Len(s.BlockPalette) = 1 /\ s.BlockPalette[1] = StrAir)

\* int64(x)<<32 | int64(z): a negative z is sign-extended over the bits of x
chunkKey_SignExtended(x, z) ==
  (IF z < 0 THEN <<255, 255, 255, 255>> ELSE WriteInt32(x)) \o WriteInt32(z)

\* int64(x)<<32 | int64(uint32(z)), as the eight bytes of the 64-bit word
chunkKey(x, z) == WriteInt32(x) \o WriteInt32(z)

NewWorld(minSection, maxSection) ==
  [Version |-> CurrentVersion, MinSection |-> minSection, MaxSection |-> maxSection,
   UserData |-> <<>>, chunks |-> <<>>, dirtyChunks |-> {}, readOnly |-> FALSE]

setChunk(w, c) ==
  LET key == chunkKey(c.X, c.Z)
  IN  [w EXCEPT !.chunks = (key :> c) @@ w.chunks,
                !.dirtyChunks = w.dirtyChunks \cup {key}]

\* SetChunk without the read-only check
SetChunk_NoReadOnlyCheck(w, c) == setChunk(w, c)

SetChunk(w, c) == IF w.readOnly THEN w ELSE setChunk(w, c)

SetReadOnly(w, readOnly) == [w EXCEPT !.readOnly = readOnly]

ClearDirty(w) == [w EXCEPT !.dirtyChunks = {}]

IsDirty(w) == Cardinality(w.dirtyChunks) > 0

\* the chunks DirtyChunks returns, as the set of their keys
DirtyChunks(w) == w.dirtyChunks \cap DOMAIN w.chunks

ChunkCount(w) == Cardinality(DOMAIN w.chunks)

\* World.Chunk: the chunk at the coordinates as a one-element sequence, or
\* <<>> for nil
Chunk(w, x, z) ==
  IF chunkKey(x, z) \in DOMAIN w.chunks THEN <<w.chunks[chunkKey(x, z)]>> ELSE <<>>

(***************************************************************************)
(* The encoder (encode.go).                                                *)
(***************************************************************************)
RECURSIVE Concat(_)
Concat(ss) == IF ss = <<>> THEN <<>> ELSE Head(ss) \o Concat(Tail(ss))

encodeSection(s) ==
  WriteVarInt(Len(s.BlockPalette))
    \o Concat([i \in 1..Len(s.BlockPalette) |-> WriteString(s.BlockPalette[i])])
    \o WriteVarInt(Len(s.BlockData))
    \o Concat([i \in 1..Len(s.BlockData) |-> WriteInt64(s.BlockData[i])])
    \o WriteVarInt(Len(s.BiomePalette))
    \o Concat([i \in 1..Len(s.BiomePalette) |-> WriteString(s.BiomePalette[i])])
    \o WriteVarInt(Len(s.BiomeData))
    \o Concat([i \in 1..Len(s.BiomeData) |-> WriteInt64(s.BiomeData[i])])

encodeEmptySection ==
  WriteVarInt(1) \o WriteString(StrAir) \o WriteVarInt(0)
    \o WriteVarInt(1) \o WriteString(StrPlains) \o WriteVarInt(0)

encodeBlockEntity(be) ==
  WriteByte(be.PackedXZ) \o WriteInt32(be.Y) \o WriteString(be.ID) \o WriteBytes(be.Data)

encodeEntity(e) ==
  WriteString(e.ID) \o WriteString(UUIDString(e.UUID))
    \o WriteFloat32(e.Position[1]) \o WriteFloat32(e.Position[2]) \o WriteFloat32(e.Position[3])
    \o WriteFloat32(e.Rotation[1]) \o WriteFloat32(e.Rotation[2])
    \o WriteFloat32(e.Velocity[1]) \o WriteFloat32(e.Velocity[2]) \o WriteFloat32(e.Velocity[3])
    \o WriteBytes(e.Data)

encodeScheduledTick(t) ==
  WriteByte(t.PackedXZ) \o WriteInt32(t.Y) \o WriteString(t.Block) \o WriteVarInt(t.Tick)

\* the bytes EncodeChunk writes for section slot i (counted from 1)
EncodeSectionSlot(c, i) ==
  IF i <= Len(c.Sections) /\ ~c.Sections[i].isNil
  THEN encodeSection(c.Sections[i])
  ELSE encodeEmptySection

EncodeChunk(c, minSection, maxSection) ==
  LET sectionCount == maxSection - minSection
  IN  WriteInt32(c.X) \o WriteInt32(c.Z)
        \o Concat([i \in 1..sectionCount |-> EncodeSectionSlot(c, i)])
        \o WriteVarInt(Len(c.BlockEntities))
        \o Concat([i \in 1..Len(c.BlockEntities) |-> encodeBlockEntity(c.BlockEntities[i])])
        \o WriteVarInt(Len(c.Entities))
        \o Concat([i \in 1..Len(c.Entities) |-> encodeEntity(c.Entities[i])])
        \o WriteVarInt(Len(c.ScheduledTicks))
        \o Concat([i \in 1..Len(c.ScheduledTicks) |-> encodeScheduledTick(c.ScheduledTicks[i])])
        \o WriteBytes(c.Heightmaps)
        \o WriteBytes(c.UserData)

\* order is the order in which the map iteration of Chunks() yields the keys
EncodeWorld(w, order) ==
  WriteInt32(w.MinSection) \o WriteInt32(w.MaxSection) \o WriteBytes(w.UserData)
    \o WriteVarInt(Len(order))
    \o Concat([i \in 1..Len(order) |-> EncodeChunk(w.chunks[order[i]], w.MinSection, w.MaxSection)])

(***************************************************************************)
(* The decoder (decode.go).                                                *)
(***************************************************************************)
\* one read followed by the rest of the function: a failed read ends the
\* function with that failure (if err != nil { return nil, err })
Then(r, K(_, _)) == IF r.st # "ok" THEN Fail(r.st) ELSE K(r.v, r.rest)

\* the read loops: n successive reads, stopping at the first one that fails
RECURSIVE ReadStrings(_, _)
ReadStrings(bs, n) ==
  IF n <= 0 THEN Ok(<<>>, bs)
  ELSE Then(ReadString(bs), LAMBDA v, b1 :
       Then(ReadStrings(b1, n - 1), LAMBDA t, b2 : Ok(<<v>> \o t, b2)))

\* n values of eight bytes each; the read that runs out of bytes fails
ReadInt64s(bs, n) ==
  IF n <= 0 THEN Ok(<<>>, bs)
  ELSE IF Len(bs) < 8 * n THEN Fail("err")
  ELSE Ok([i \in 1..n |-> ReadInt64(SubSeq(bs, (8 * i) - 7, 8 * i)).v], Drop(bs, 8 * n))

\* n values of four bytes each
ReadFloat32s(bs, n) ==
  IF n <= 0 THEN Ok(<<>>, bs)
  ELSE IF Len(bs) < 4 * n THEN Fail("err")
  ELSE Ok([i \in 1..n |-> SubSeq(bs, (4 * i) - 3, 4 * i)], Drop(bs, 4 * n))

\* make([]T, n) with a negative n panics
MakeSlice(n, r) == IF n < 0 THEN Fail("panic") ELSE r

decodeSection(bs) ==
  Then(ReadVarInt(bs), LAMBDA paletteSize, b1 :
  MakeSlice(paletteSize,
  Then(ReadStrings(b1, paletteSize), LAMBDA blockPalette, b2 :
  Then(ReadVarInt(b2), LAMBDA blockDataSize, b3 :
  MakeSlice(blockDataSize,
  Then(ReadInt64s(b3, blockDataSize), LAMBDA blockData, b4 :
  Then(ReadVarInt(b4), LAMBDA biomePaletteSize, b5 :
  MakeSlice(biomePaletteSize,
  Then(ReadStrings(b5, biomePaletteSize), LAMBDA biomePalette, b6 :
  Then(ReadVarInt(b6), LAMBDA biomeDataSize, b7 :
  MakeSlice(biomeDataSize,
  Then(ReadInt64s(b7, biomeDataSize), LAMBDA biomeData, b8 :
  Ok(Section(blockPalette, blockData, biomePalette, biomeData), b8)))))))))))))

decodeBlockEntity(bs) ==
  Then(ReadByte(bs), LAMBDA packedXZ, b1 :
  Then(ReadInt32(b1), LAMBDA y, b2 :
  Then(ReadString(b2), LAMBDA id, b3 :
  Then(ReadBytes(b3), LAMBDA data, b4 :
  Ok([PackedXZ |-> packedXZ, Y |-> y, ID |-> id, Data |-> data], b4)))))

decodeEntity(bs) ==
  Then(ReadString(bs), LAMBDA id, b1 :
  Then(ReadString(b1), LAMBDA uidStr, b2 :
  Then(ReadFloat32s(b2, 8), LAMBDA floats, b3 :
  Then(ReadBytes(b3), LAMBDA data, b4 :
  Ok([UUID |-> UUIDParse(uidStr), ID |-> id,
      Position |-> SubSeq(floats, 1, 3), Rotation |-> SubSeq(floats, 4, 5),
      Velocity |-> SubSeq(floats, 6, 8), Data |-> data], b4)))))

decodeScheduledTick(bs) ==
  Then(ReadByte(bs), LAMBDA pxz, b1 :
  Then(ReadInt32(b1), LAMBDA y, b2 :
  Then(ReadString(b2), LAMBDA block, b3 :
  Then(ReadVarInt(b3), LAMBDA t, b4 :
  Ok([PackedXZ |-> pxz, Y |-> y, Block |-> block, Tick |-> t], b4)))))

\* the loops of decodeChunk
RECURSIVE DecodeSectionsFrom(_, _, _)
DecodeSectionsFrom(sections, bs, n) ==
  IF n <= 0 THEN Ok(sections, bs)
  ELSE Then(decodeSection(bs), LAMBDA s, b1 :
       DecodeSectionsFrom(Append(sections, s), b1, n - 1))

DecodeSections(bs, n) == DecodeSectionsFrom(<<>>, bs, n)

RECURSIVE DecodeBlockEntities(_, _)
DecodeBlockEntities(bs, n) ==
  IF n <= 0 THEN Ok(<<>>, bs)
  ELSE Then(decodeBlockEntity(bs), LAMBDA be, b1 :
       Then(DecodeBlockEntities(b1, n - 1), LAMBDA t, b2 : Ok(<<be>> \o t, b2)))

RECURSIVE DecodeEntities(_, _)
DecodeEntities(bs, n) ==
  IF n <= 0 THEN Ok(<<>>, bs)
  ELSE Then(decodeEntity(bs), LAMBDA e, b1 :
       Then(DecodeEntities(b1, n - 1), LAMBDA t, b2 : Ok(<<e>> \o t, b2)))

RECURSIVE DecodeScheduledTicks(_, _)
DecodeScheduledTicks(bs, n) ==
  IF n <= 0 THEN Ok(<<>>, bs)
  ELSE Then(decodeScheduledTick(bs), LAMBDA st, b1 :
       Then(DecodeScheduledTicks(b1, n - 1), LAMBDA t, b2 : Ok(<<st>> \o t, b2)))

\* only non-empty sections are stored
StoreSection(s) == IF IsEmpty(s) THEN NilSection ELSE s

\* a negative count is refused with an error
Count(n, r) == IF n < 0 THEN Fail("err") ELSE r

\* the decoder reads one length-prefixed byte string after the scheduled
\* ticks and stores it as the chunk's user data; Heightmaps is never set
decodeChunk(bs, minSection, maxSection) ==
  Then(ReadInt32(bs), LAMBDA x, b1 :
  Then(ReadInt32(b1), LAMBDA z, b2 :
  MakeSlice(maxSection - minSection,
  Then(DecodeSections(b2, maxSection - minSection), LAMBDA sections, b3 :
  Then(ReadVarInt(b3), LAMBDA beCount, b4 :
  Count(beCount,
  Then(DecodeBlockEntities(b4, beCount), LAMBDA blockEntities, b5 :
  Then(ReadVarInt(b5), LAMBDA entCount, b6 :
  Count(entCount,
  Then(DecodeEntities(b6, entCount), LAMBDA entities, b7 :
  Then(ReadVarInt(b7), LAMBDA tickCount, b8 :
  Count(tickCount,
  Then(DecodeScheduledTicks(b8, tickCount), LAMBDA ticks, b9 :
  Then(ReadBytes(b9), LAMBDA userData, b10 :
  Ok([X |-> x, Z |-> z,
      Sections |-> [i \in 1..(maxSection - minSection) |-> StoreSection(sections[i])],
      BlockEntities |-> blockEntities, Entities |-> entities,
      ScheduledTicks |-> ticks, Heightmaps |-> <<>>, UserData |-> userData],
     b10)))))))))))))))

\* the loop of DecodeWorld over the chunks: each decoded chunk is installed
\* with setChunk
RECURSIVE DecodeChunks(_, _, _)
DecodeChunks(w, bs, n) ==
  IF n <= 0 THEN Ok(w, bs)
  ELSE Then(decodeChunk(bs, w.MinSection, w.MaxSection), LAMBDA c, b1 :
       DecodeChunks(setChunk(w, c), b1, n - 1))

\* the world a failed decode returns (nil)
NoWorld == NewWorld(0, 0)

\* DecodeWorld returns (world, error): a failure of any read gives no world
WorldResult(r) ==
  IF r.st # "ok" THEN [st |-> r.st, world |-> NoWorld] ELSE [st |-> "ok", world |-> r.v]

DecodeWorld(bs) ==
  WorldResult(
    Then(ReadInt32(bs), LAMBDA minSection, b1 :
    Then(ReadInt32(b1), LAMBDA maxSection, b2 :
    Then(ReadBytes(b2), LAMBDA userData, b3 :
    Then(ReadVarInt(b3), LAMBDA chunkCount, b4 :
    IF chunkCount < 0 \/ chunkCount > 1000000 THEN Fail("err")
    ELSE DecodeChunks([Version |-> CurrentVersion, MinSection |-> minSection,
                       MaxSection |-> maxSection, UserData |-> userData,
                       chunks |-> <<>>, dirtyChunks |-> {}, readOnly |-> FALSE],
                      b4, chunkCount))))))

(***************************************************************************)
(* State of the format machine: a caller builds a world with the public    *)
(* API, encodes it, decodes the bytes and goes on with either world.       *)
(***************************************************************************)
VARIABLES
  fw,    \* the World the caller holds
  fbuf,  \* the bytes EncodeWorld wrote
  fdec,  \* the outcome of DecodeWorld: st and the world returned
  fpc,   \* "build", "encoded" or "decoded"
  fop    \* the last operation called

fvars == <<fw, fbuf, fdec, fpc, fop>>

(***************************************************************************)
(* The inputs the callers draw from.                                       *)
(***************************************************************************)
AllCoords == <<(<<0, 0>>), (<<-1, 1>>), (<<1, -1>>), (<<-1, -1>>)>>

\* chunk coordinates in use: as many as a world may hold chunks
ChunkCoords == {AllCoords[i] : i \in 1..MaxChunks}

\* section ranges <<MinSection, MaxSection>> of the worlds built
WorldRanges == {<<-1, MaxSections - 1>>}

WorldUserDatas == {<<7>>}

StoneSection == Section(<<StrAir, StrStone>>, <<1>>, <<StrPlains>>, <<>>)

\* air only, with block data and a biome palette of its own
AirSection == Section(<<StrAir>>, <<0>>, <<StrDesert>>, <<>>)

\* empty block palette
NoPaletteSection == Section(<<>>, <<>>, <<>>, <<>>)

SomeUUID == <<18, 52, 86, 120, 154, 188, 222, 240, 1, 35, 69, 103, 137, 171, 205, 239>>

\* the f32 values 1.0, 0.0 and -1.0
F32One == <<63, 128, 0, 0>>

F32Zero == <<0, 0, 0, 0>>

F32MinusOne == <<191, 128, 0, 0>>

SomeBlockEntity == [PackedXZ |-> 33, Y |-> -3, ID |-> <<99>>, Data |-> <<10, 0>>]

SomeEntity ==
  [UUID |-> SomeUUID, ID |-> <<122>>, Position |-> <<F32One, F32Zero, F32MinusOne>>,
   Rotation |-> <<F32Zero, F32One>>, Velocity |-> <<F32Zero, F32Zero, F32One>>,
   Data |-> <<>>]

SomeTick == [PackedXZ |-> 240, Y |-> 70, Block |-> StrStone, Tick |-> -5]

AllOf(s, n) == [i \in 1..n |-> s]

Body(sections, full, heightmaps, userData) ==
  [Sections |-> sections,
   BlockEntities |-> IF full THEN <<SomeBlockEntity>> ELSE <<>>,
   Entities |-> IF full THEN <<SomeEntity>> ELSE <<>>,
   ScheduledTicks |-> IF full THEN <<SomeTick>> ELSE <<>>,
   Heightmaps |-> heightmaps, UserData |-> userData]

\* the chunk contents a caller sets in a world of n sections
ChunkBodies(n) ==
  { Body(<<>>, FALSE, <<>>, <<>>),
    Body(AllOf(StoneSection, n), TRUE, <<>>, <<9>>),
    Body(AllOf(StoneSection, n), FALSE, <<5>>, <<>>),
    Body(<<AirSection>> \o AllOf(NoPaletteSection, n - 1), FALSE, <<>>, <<>>),
    Body(<<StoneSection>> \o AllOf(NilSection, n - 1), TRUE, <<>>, <<>>) }

MakeChunk(pos, body) ==
  [X |-> pos[1], Z |-> pos[2], Sections |-> body.Sections,
   BlockEntities |-> body.BlockEntities, Entities |-> body.Entities,
   ScheduledTicks |-> body.ScheduledTicks, Heightmaps |-> body.Heightmaps,
   UserData |-> body.UserData]

\* the orders in which a map iteration may yield the keys of S
RECURSIVE Perms(_)
Perms(S) ==
  IF S = {} THEN {<<>>}
  ELSE UNION {{<<k>> \o p : p \in Perms(S \ {k})} : k \in S}

NoDecode == [st |-> "none", world |-> NoWorld]

(***************************************************************************)
(* Actions of the format machine.                                          *)
(***************************************************************************)
FInit ==
  /\ \E r \in WorldRanges, d \in WorldUserDatas :
       fw = [NewWorld(r[1], r[2]) EXCEPT !.UserData = d]
  /\ fbuf = <<>>
  /\ fdec = NoDecode
  /\ fpc = "build"
  /\ fop = "NewWorld"

F_SetChunk ==
  /\ fpc = "build"
  /\ \E pos \in ChunkCoords, body \in ChunkBodies(fw.MaxSection - fw.MinSection) :
       fw' = SetChunk(fw, MakeChunk(pos, body))
  /\ fop' = "SetChunk"
  /\ UNCHANGED <<fbuf, fdec, fpc>>

F_SetReadOnly ==
  /\ fpc = "build"
  /\ \E b \in BOOLEAN : fw' = SetReadOnly(fw, b)
  /\ fop' = "SetReadOnly"
  /\ UNCHANGED <<fbuf, fdec, fpc>>

F_ClearDirty ==
  /\ fpc = "build"
  /\ fw' = ClearDirty(fw)
  /\ fop' = "ClearDirty"
  /\ UNCHANGED <<fbuf, fdec, fpc>>

F_Encode ==
  /\ fpc = "build"
  /\ \E order \in Perms(DOMAIN fw.chunks) : fbuf' = EncodeWorld(fw, order)
  /\ fpc' = "encoded"
  /\ fop' = "EncodeWorld"
  /\ UNCHANGED <<fw, fdec>>

F_Decode ==
  /\ fpc = "encoded"
  /\ fdec' = DecodeWorld(fbuf)
  /\ fbuf' = <<>>
  /\ fpc' = "decoded"
  /\ fop' = "DecodeWorld"
  /\ UNCHANGED fw

\* the caller goes on with the decoded world
F_Adopt ==
  /\ fpc = "decoded"
  /\ fdec.st = "ok"
  /\ fw' = fdec.world
  /\ fdec' = NoDecode
  /\ fpc' = "build"
  /\ fop' = "Adopt"
  /\ UNCHANGED fbuf

\* the caller goes on with the world it encoded
F_Discard ==
  /\ fpc = "decoded"
  /\ fdec' = NoDecode
  /\ fpc' = "build"
  /\ fop' = "Discard"
  /\ UNCHANGED <<fw, fbuf>>

FNext ==
  \/ F_SetChunk
  \/ F_SetReadOnly
  \/ F_ClearDirty
  \/ F_Encode
  \/ F_Decode
  \/ F_Adopt
  \/ F_Discard

\* the format machine before any world is built
FInitIdle ==
  /\ fw = NewWorld(0, 1)
  /\ fbuf = <<>>
  /\ fdec = NoDecode
  /\ fpc = "build"
  /\ fop = "NewWorld"

(***************************************************************************)
(* Properties of the format machine.                                       *)
(***************************************************************************)
SectionCount(w) == w.MaxSection - w.MinSection

NoDuplicates(palette) ==
  \A i, j \in 1..Len(palette) : palette[i] = palette[j] => i = j

\* every section slot of the chunk holds a non-empty section with
\* duplicate-free palettes
RoundTripChunk(c, n) ==
  /\ Len(c.Sections) = n
  /\ \A i \in 1..n :
       /\ ~c.Sections[i].isNil
       /\ ~IsEmpty(c.Sections[i])
       /\ NoDuplicates(c.Sections[i].BlockPalette)
       /\ NoDuplicates(c.Sections[i].BiomePalette)

RoundTripInput(w) ==
  \A k \in DOMAIN w.chunks : RoundTripChunk(w.chunks[k], SectionCount(w))

SameChunk(d, c) ==
  /\ d.X = c.X /\ d.Z = c.Z
  /\ d.Sections = c.Sections
  /\ d.BlockEntities = c.BlockEntities
  /\ d.Entities = c.Entities
  /\ d.ScheduledTicks = c.ScheduledTicks
  /\ d.Heightmaps = c.Heightmaps
  /\ d.UserData = c.UserData

SameWorld(d, w) ==
  /\ d.MinSection = w.MinSection
  /\ d.MaxSection = w.MaxSection
  /\ d.UserData = w.UserData
  /\ DOMAIN d.chunks = DOMAIN w.chunks
  /\ \A k \in DOMAIN w.chunks : SameChunk(d.chunks[k], w.chunks[k])

\* C1: decoding the bytes EncodeWorld wrote for a world of non-empty
\* sections with duplicate-free palettes succeeds and returns the same world:
\* same section range, user data and set of chunks, each chunk with the same
\* coordinates, sections, block entities, entities, scheduled ticks,
\* heightmaps and user data.
C1_RoundTrip ==
  (fpc = "decoded" /\ RoundTripInput(fw)) =>
    (fdec.st = "ok" /\ SameWorld(fdec.world, fw))

CanonicalEmptySection ==
  WriteVarInt(1) \o WriteVarInt(13) \o StrAir \o WriteVarInt(0)
    \o WriteVarInt(1) \o WriteVarInt(16) \o StrPlains \o WriteVarInt(0)

SlotAbsentOrAirOnly(c, i) ==
  \/ i > Len(c.Sections)
  \/ c.Sections[i].isNil
  \/ IsEmpty(c.Sections[i])

MaxCalls == 3

MagicNumber == 1349413989

CompressionLevelNone == 0

CompressionLevelFast == 1

CompressionLevelDefault == 2

CompressionLevelBest == 3

\* world.Overworld, world.Nether, world.End in the order load and
\* saveInternal visit them
DimOrder == <<"overworld", "nether", "end">>

Dims == {"overworld", "nether", "end"}

\* the dimensions a caller passes: the three above and one of its own
DimInputs == Dims \cup {"custom"}

\* dim.Range() >> 4: the section range of a dimension
DimSections(dim) ==
  CASE dim = "overworld" -> <<-4, 20>>
    [] dim = "nether" -> <<0, 8>>
    [] dim = "end" -> <<0, 16>>
    [] OTHER -> <<0, 16>>

dimensionFileName(dim) ==
  CASE dim = "overworld" -> "overworld.pile"
    [] dim = "nether" -> "nether.pile"
    [] dim = "end" -> "end.pile"
    [] OTHER -> "unknown.pile"

\* a *World field of the provider: nil, or a world
NilWorld == [isNil |-> TRUE, w |-> NoWorld]

SomeWorld(w) == [isNil |-> FALSE, w |-> w]

newWorld(dim) == NewWorld(DimSections(dim)[1], DimSections(dim)[2])

defaultSettings ==
  [Name |-> "Pile World", Spawn |-> <<0, 64, 0>>, Time |-> 6000, TimeCycle |-> TRUE,
   RainTime |-> 0, Raining |-> FALSE, ThunderTime |-> 0, Thundering |-> FALSE,
   WeatherCycle |-> TRUE, CurrentTick |-> 0, DefaultGameMode |-> "survival",
   Difficulty |-> "normal"]

\* world.GameModeID / world.GameModeByID for the registered game modes
GameModeID(m) ==
  CASE m = "survival" -> 0 [] m = "creative" -> 1 [] m = "adventure" -> 2
    [] m = "spectator" -> 3 [] OTHER -> 0

GameModeByID(id) ==
  CASE id = 0 -> "survival" [] id = 1 -> "creative" [] id = 2 -> "adventure"
    [] id = 3 -> "spectator" [] OTHER -> "survival"

\* world.DifficultyID / world.DifficultyByID for the registered difficulties
DifficultyID(d) ==
  CASE d = "peaceful" -> 0 [] d = "easy" -> 1 [] d = "normal" -> 2
    [] d = "hard" -> 3 [] OTHER -> 0

DifficultyByID(id) ==
  CASE id = 0 -> "peaceful" [] id = 1 -> "easy" [] id = 2 -> "normal"
    [] id = 3 -> "hard" [] OTHER -> "peaceful"

settingsToInternal(s) ==
  [s EXCEPT !.DefaultGameMode = GameModeID(s.DefaultGameMode),
            !.Difficulty = DifficultyID(s.Difficulty)]

settingsFromInternal(s) ==
  [s EXCEPT !.DefaultGameMode = GameModeByID(s.DefaultGameMode),
            !.Difficulty = DifficultyByID(s.Difficulty)]

\* the NBT compound of the settings: every value with the tag it is written as
encodeSettings(s) ==
  [name |-> <<"string", s.Name>>,
   spawnX |-> <<"int32", s.Spawn[1]>>, spawnY |-> <<"int32", s.Spawn[2]>>,
   spawnZ |-> <<"int32", s.Spawn[3]>>,
   time |-> <<"int64", s.Time>>, timeCycle |-> <<"uint8", s.TimeCycle>>,
   rainTime |-> <<"int64", s.RainTime>>, raining |-> <<"uint8", s.Raining>>,
   thunderTime |-> <<"int64", s.ThunderTime>>, thundering |-> <<"uint8", s.Thundering>>,
   weatherCycle |-> <<"uint8", s.WeatherCycle>>, currentTick |-> <<"int64", s.CurrentTick>>,
   defaultGameMode |-> <<"int32", s.DefaultGameMode>>,
   difficulty |-> <<"int32", s.Difficulty>>]

\* the zero value of the internal Settings struct
ZeroSettings ==
  [Name |-> "", Spawn |-> <<0, 0, 0>>, Time |-> 0, TimeCycle |-> FALSE,
   RainTime |-> 0, Raining |-> FALSE, ThunderTime |-> 0, Thundering |-> FALSE,
   WeatherCycle |-> FALSE, CurrentTick |-> 0, DefaultGameMode |-> 0, Difficulty |-> 0]

\* decodeSettings into a zero Settings: a field is taken when its tag matches
decodeSettings(m) ==
  [Name |-> IF m.name[1] = "string" THEN m.name[2] ELSE ZeroSettings.Name,
   Spawn |-> IF m.spawnX[1] = "int32" /\ m.spawnY[1] = "int32" /\ m.spawnZ[1] = "int32"
             THEN <<m.spawnX[2], m.spawnY[2], m.spawnZ[2]>> ELSE ZeroSettings.Spawn,
   Time |-> IF m.time[1] = "int64" THEN m.time[2] ELSE ZeroSettings.Time,
   TimeCycle |-> IF m.timeCycle[1] = "uint8" THEN m.timeCycle[2] ELSE ZeroSettings.TimeCycle,
   RainTime |-> IF m.rainTime[1] = "int64" THEN m.rainTime[2] ELSE ZeroSettings.RainTime,
   Raining |-> IF m.raining[1] = "uint8" THEN m.raining[2] ELSE ZeroSettings.Raining,
   ThunderTime |-> IF m.thunderTime[1] = "int64" THEN m.thunderTime[2]
                   ELSE ZeroSettings.ThunderTime,
   Thundering |-> IF m.thundering[1] = "uint8" THEN m.thundering[2]
                  ELSE ZeroSettings.Thundering,
   WeatherCycle |-> IF m.weatherCycle[1] = "uint8" THEN m.weatherCycle[2]
                    ELSE ZeroSettings.WeatherCycle,
   CurrentTick |-> IF m.currentTick[1] = "int64" THEN m.currentTick[2]
                   ELSE ZeroSettings.CurrentTick,
   DefaultGameMode |-> IF m.defaultGameMode[1] = "int32" THEN m.defaultGameMode[2]
                       ELSE ZeroSettings.DefaultGameMode,
   Difficulty |-> IF m.difficulty[1] = "int32" THEN m.difficulty[2]
                  ELSE ZeroSettings.Difficulty]

(***************************************************************************)
(* Files of the world directory.  The payload of a file is kept as what    *)
(* the world encoder wrote: the user data and the chunks of the world.  A  *)
(* byte string holding the settings is the one-element sequence of their   *)
(* NBT compound; the empty byte string is <<>>.                            *)
(***************************************************************************)
NoPayload == [valid |-> FALSE, UserData |-> <<>>, chunks |-> <<>>]

MissingFile ==
  [exists |-> FALSE, openable |-> FALSE, magic |-> 0, version |-> 0, payload |-> NoPayload]

\* what writeWorldWithCompression / writeWorldStreaming leave in a file
WrittenFile(w, version) ==
  [exists |-> TRUE, openable |-> TRUE, magic |-> MagicNumber, version |-> version,
   payload |-> [valid |-> TRUE, UserData |-> w.UserData, chunks |-> w.chunks]]

\* os.Create truncated the file and the write of the world data failed
TruncatedFile ==
  [exists |-> TRUE, openable |-> TRUE, magic |-> MagicNumber, version |-> CurrentVersion,
   payload |-> NoPayload]

\* the version field the writers put in the header
HeaderVersion(w, streaming) == IF streaming THEN w.Version ELSE CurrentVersion

\* decodeWorld of the provider package: the world of a valid payload, with
\* no chunk marked dirty
decodeWorld(payload, dim) ==
  IF ~payload.valid THEN [st |-> "err", world |-> NoWorld]
  ELSE [st |-> "ok",
        world |-> [newWorld(dim) EXCEPT !.UserData = payload.UserData,
                                        !.chunks = payload.chunks]]

readWorld(f, dim) ==
  IF f.magic # MagicNumber THEN [st |-> "err", world |-> NoWorld]
  ELSE IF f.version > CurrentVersion THEN [st |-> "err", world |-> NoWorld]
  ELSE decodeWorld(f.payload, dim)

\* the loop of load over the dimensions, from the i-th on: err tells whether
\* load returns an error other than os.ErrNotExist
RECURSIVE LoadLoop(_, _, _)
LoadLoop(i, ws, dk) ==
  IF i > Len(DimOrder) THEN [err |-> FALSE, worlds |-> ws]
  ELSE LET dim == DimOrder[i]
           f == dk[dim]
       IN  IF ~f.exists THEN LoadLoop(i + 1, ws, dk)
           ELSE IF ~f.openable THEN [err |-> TRUE, worlds |-> ws]
           ELSE LET r == readWorld(f, dim)
                IN  IF r.st # "ok" THEN [err |-> TRUE, worlds |-> ws]
                    ELSE LoadLoop(i + 1, [ws EXCEPT ![dim] = SomeWorld(r.world)], dk)

\* the settings load installs: those of the overworld's user data if it
\* carries any, else the ones the provider had
LoadedSettings(ws, old) ==
  IF ~ws["overworld"].isNil /\ Len(ws["overworld"].w.UserData) > 0
  THEN settingsFromInternal(decodeSettings(ws["overworld"].w.UserData[1]))
  ELSE old

\* load that reports no error when a file could not be read
load_ErrorDropped(dk) ==
  LET r == LoadLoop(1, [d \in Dims |-> NilWorld], dk)
  IN  [err |-> FALSE, worlds |-> r.worlds,
       settings |-> LoadedSettings(r.worlds, defaultSettings)]

load(dk) ==
  LET r == LoadLoop(1, [d \in Dims |-> NilWorld], dk)
  IN  [err |-> r.err, worlds |-> r.worlds,
       settings |-> IF r.err THEN defaultSettings
                    ELSE LoadedSettings(r.worlds, defaultSettings)]

\* the save failures the file system may produce: none, or for one
\* dimension the failure of os.Create, of the write or of Close
NoFailure == <<"none", "none">>

Failures == {NoFailure} \cup (Dims \X {"create", "write", "close"})

\* the loop of saveInternal over the dimensions, from the i-th on
RECURSIVE SaveLoop(_, _, _, _, _, _)
SaveLoop(i, ws, dk, dirOk, streaming, fail) ==
  IF i > Len(DimOrder) THEN [err |-> FALSE, worlds |-> ws, disk |-> dk]
  ELSE LET dim == DimOrder[i]
           w == ws[dim].w
       IN  IF ws[dim].isNil THEN SaveLoop(i + 1, ws, dk, dirOk, streaming, fail)
           ELSE IF ~dirOk \/ fail = <<dim, "create">>
                THEN [err |-> TRUE, worlds |-> ws, disk |-> dk]
           ELSE IF fail = <<dim, "write">>
                THEN [err |-> TRUE, worlds |-> ws,
                      disk |-> [dk EXCEPT ![dim] = TruncatedFile]]
           ELSE IF fail = <<dim, "close">>
                THEN [err |-> TRUE, worlds |-> ws,
                      disk |-> [dk EXCEPT ![dim] = WrittenFile(w, HeaderVersion(w, streaming))]]
           ELSE SaveLoop(i + 1, [ws EXCEPT ![dim] = SomeWorld(ClearDirty(w))],
                         [dk EXCEPT ![dim] = WrittenFile(w, HeaderVersion(w, streaming))],
                         dirOk, streaming, fail)

\* saveInternal that leaves the provider's dirty flag as it was
saveInternal_DirtyKept(ws, st, dk, dirOk, streaming, isDirty, fail) ==
  LET ws1 == IF ws["overworld"].isNil THEN ws
             ELSE [ws EXCEPT !["overworld"].w.UserData = <<encodeSettings(settingsToInternal(st))>>]
      r == SaveLoop(1, ws1, dk, dirOk, streaming, fail)
  IN  [err |-> r.err, worlds |-> r.worlds, disk |-> r.disk, dirty |-> isDirty]

\* saveInternal: the settings go into the overworld's user data, then every
\* present dimension is written in turn; the dirty flag is cleared only when
\* all of them were written
saveInternal(ws, st, dk, dirOk, streaming, isDirty, fail) ==
  LET ws1 == IF ws["overworld"].isNil THEN ws
             ELSE [ws EXCEPT !["overworld"].w.UserData = <<encodeSettings(settingsToInternal(st))>>]
      r == SaveLoop(1, ws1, dk, dirOk, streaming, fail)
  IN  [err |-> r.err, worlds |-> r.worlds, disk |-> r.disk,
       dirty |-> IF r.err THEN isDirty ELSE FALSE]

(***************************************************************************)
(* State of the provider machine: a caller constructs a provider on a      *)
(* directory and calls its methods; every method runs under the provider's *)
(* lock from its first to its last statement.                              *)
(***************************************************************************)
VARIABLES
  pst,               \* "none" before construction, "open", or "failed" (nil, err)
  pReadOnly,         \* the provider was constructed with NewReadOnly
  worlds,            \* overworld, nether, end
  settings,
  playerSpawns,
  dirty,
  compressionLevel,
  streamingSaves,
  dirExists,         \* the provider's directory exists
  disk,              \* the three dimension files
  pop,               \* the last method called
  parg,              \* its dimension and chunk position, where it takes them
  perr,              \* it returned an error
  pres,              \* what it returned besides
  calls              \* number of calls made after the first construction

pvars == <<pst, pReadOnly, worlds, settings, playerSpawns, dirty, compressionLevel,
           streamingSaves, dirExists, disk, pop, parg, perr, pres, calls>>

(***************************************************************************)
(* The inputs of the provider's callers.                                   *)
(***************************************************************************)
\* chunk positions in use: as many as a provider world may hold chunks
ProvCoords == {AllCoords[i] : i \in 1..MaxProvChunks}

\* the block position at the offsets (dx, dz) inside the chunk at pos
BlockPos(pos, dx, y, dz) == <<16 * pos[1] + dx, y, 16 * pos[2] + dz>>

\* a column of the chunk at pos: its blocks, one block entity and one
\* scheduled block update, both at absolute block positions inside the chunk
ColumnAt(pos, blocks) ==
  [Chunk |-> blocks,
   BlockEntities |-> <<[Pos |-> BlockPos(pos, 5, 70, 9), Data |-> "chest"]>>,
   ScheduledBlocks |-> <<[Pos |-> BlockPos(pos, 15, -3, 0), Block |-> "water",
                          Tick |-> 40]>>]

\* the columns a caller stores at pos
Columns(pos) == {ColumnAt(pos, "colB")}

SettingsInputs ==
  { [defaultSettings EXCEPT !.Name = "lobby", !.Time = 1000, !.Raining = TRUE,
                            !.DefaultGameMode = "creative", !.Difficulty = "hard"] }

PlayerIDs == {"player1"}

SpawnInputs == {<<1, 65, -1>>}

LevelInputs == {CompressionLevelBest}

NoArg == [dim |-> "none", pos |-> <<0, 0>>]

\* relX | (relZ << 4) with relX = X & 0xF and relZ = Z & 0xF of a block
\* position; & 0xF of a two's complement integer is the remainder modulo 16
packedXZ(p) == (p[1] % 16) + 16 * (p[3] % 16)

\* columnToChunk: the blocks are kept, block entities and scheduled updates
\* keep Y and pack the low four bits of X and Z
columnToChunk(col, x, z) ==
  [X |-> x, Z |-> z, blocks |-> col.Chunk,
   BlockEntities |->
     [i \in DOMAIN col.BlockEntities |->
        [PackedXZ |-> packedXZ(col.BlockEntities[i].Pos),
         Y |-> col.BlockEntities[i].Pos[2],
         Data |-> col.BlockEntities[i].Data]],
   ScheduledTicks |->
     [i \in DOMAIN col.ScheduledBlocks |->
        [PackedXZ |-> packedXZ(col.ScheduledBlocks[i].Pos),
         Y |-> col.ScheduledBlocks[i].Pos[2],
         Block |-> col.ScheduledBlocks[i].Block,
         Tick |-> col.ScheduledBlocks[i].Tick]]]

\* Position of a block entity or a scheduled tick: the low nibble, Y, the
\* high nibble
Position(e) == <<e.PackedXZ % 16, e.Y, (e.PackedXZ \div 16) % 16>>

\* chunkToColumn: the blocks are kept, and each block entity and scheduled
\* update gets cube.Pos{x, y, z} of its Position()
chunkToColumn(c) ==
  [Chunk |-> c.blocks,
   BlockEntities |->
     [i \in DOMAIN c.BlockEntities |->
        [Pos |-> Position(c.BlockEntities[i]), Data |-> c.BlockEntities[i].Data]],
   ScheduledBlocks |->
     [i \in DOMAIN c.ScheduledTicks |->
        [Pos |-> Position(c.ScheduledTicks[i]),
         Block |-> c.ScheduledTicks[i].Block,
         Tick |-> c.ScheduledTicks[i].Tick]]]

\* the files a directory may hold for a dimension before the first
\* construction: none, a good one, or one that cannot be opened or decoded
GoodWorld(dim) ==
  IF dim = "end" THEN newWorld(dim)
  ELSE [newWorld(dim) EXCEPT
          !.UserData = IF dim = "overworld"
                       THEN <<encodeSettings(settingsToInternal(
                                [defaultSettings EXCEPT !.Name = "saved"]))>>
                       ELSE <<>>,
          !.chunks = (chunkKey(0, 0) :> columnToChunk(ColumnAt(<<0, 0>>, "colA"), 0, 0))]

GoodFile(dim) == WrittenFile(GoodWorld(dim), CurrentVersion)

BadFiles(dim) ==
  { [GoodFile(dim) EXCEPT !.openable = FALSE],
    [GoodFile(dim) EXCEPT !.magic = 0],
    [GoodFile(dim) EXCEPT !.version = CurrentVersion + 1],
    TruncatedFile }

InitialFiles(dim) == {MissingFile, GoodFile(dim)} \cup BadFiles(dim)

(***************************************************************************)
(* Methods of the provider.                                                *)
(***************************************************************************)
worldForDim(ws, dim) == IF dim \in Dims THEN ws[dim] ELSE NilWorld

setWorldForDim(ws, dim, w) == IF dim \in Dims THEN [ws EXCEPT ![dim] = SomeWorld(w)] ELSE ws

NoWorlds == [d \in Dims |-> NilWorld]

NoSpawns == <<>>

PInit ==
  /\ pst = "none"
  /\ pReadOnly = FALSE
  /\ worlds = NoWorlds
  /\ settings = defaultSettings
  /\ playerSpawns = NoSpawns
  /\ dirty = FALSE
  /\ compressionLevel = CompressionLevelDefault
  /\ streamingSaves = FALSE
  /\ dirExists \in BOOLEAN
  /\ disk \in [Dims -> UNION {InitialFiles(d) : d \in Dims}]
  /\ \A d \in Dims : disk[d] \in InitialFiles(d)
  /\ (~dirExists => \A d \in Dims : disk[d] = MissingFile)
  /\ pop = "none"
  /\ parg = NoArg
  /\ perr = FALSE
  /\ pres = "none"
  /\ calls = 0

\* a call is made: the first construction, or one of MaxCalls later calls
Called(op, arg) ==
  /\ calls < MaxCalls
  /\ calls' = IF pst = "none" THEN calls ELSE calls + 1
  /\ pop' = op
  /\ parg' = arg

\* the constructor returned (nil, err)
NoProvider ==
  /\ pst' = "failed"
  /\ perr' = TRUE
  /\ worlds' = NoWorlds
  /\ settings' = defaultSettings
  /\ playerSpawns' = NoSpawns
  /\ dirty' = FALSE
  /\ compressionLevel' = CompressionLevelDefault
  /\ streamingSaves' = FALSE

\* the constructor returned the provider that load filled
Loaded(level) ==
  LET r == load(disk)
  IN  IF r.err THEN NoProvider
      ELSE /\ pst' = "open"
           /\ perr' = FALSE
           /\ worlds' = r.worlds
           /\ settings' = r.settings
           /\ playerSpawns' = NoSpawns
           /\ dirty' = FALSE
           /\ compressionLevel' = level
           /\ streamingSaves' = FALSE

\* New / NewWithCompression; os.MkdirAll may fail where the directory is missing
P_New ==
  /\ pst \in {"none", "open"}
  /\ Called("New", NoArg)
  /\ pres' = "none"
  /\ pReadOnly' = FALSE
  /\ \E level \in LevelInputs \cup {CompressionLevelDefault}, mkdirOk \in BOOLEAN :
       /\ (dirExists => mkdirOk)
       /\ IF mkdirOk
          THEN dirExists' = TRUE /\ Loaded(level)
          ELSE dirExists' = dirExists /\ NoProvider
  /\ UNCHANGED disk

\* NewReadOnly as the readme describes it: the directory is not created and
\* the provider is marked read-only
P_NewReadOnly ==
  /\ pst \in {"none", "open"}
  /\ Called("NewReadOnly", NoArg)
  /\ pres' = "none"
  /\ pReadOnly' = TRUE
  /\ Loaded(CompressionLevelDefault)
  /\ UNCHANGED <<dirExists, disk>>

P_SetCompressionLevel ==
  /\ pst = "open"
  /\ Called("SetCompressionLevel", NoArg)
  /\ \E level \in LevelInputs : compressionLevel' = level
  /\ perr' = FALSE
  /\ pres' = "none"
  /\ UNCHANGED <<pst, pReadOnly, worlds, settings, playerSpawns, dirty, streamingSaves,
                 dirExists, disk>>

P_SetStreamingSaves ==
  /\ pst = "open"
  /\ Called("SetStreamingSaves", NoArg)
  /\ \E enabled \in BOOLEAN : streamingSaves' = enabled
  /\ perr' = FALSE
  /\ pres' = "none"
  /\ UNCHANGED <<pst, pReadOnly, worlds, settings, playerSpawns, dirty, compressionLevel,
                 dirExists, disk>>

P_SaveSettings ==
  /\ pst = "open"
  /\ Called("SaveSettings", NoArg)
  /\ \E s \in SettingsInputs : settings' = s
  /\ dirty' = TRUE
  /\ perr' = FALSE
  /\ pres' = "none"
  /\ UNCHANGED <<pst, pReadOnly, worlds, playerSpawns, compressionLevel, streamingSaves,
                 dirExists, disk>>

\* what StoreColumn does to the worlds: a missing world is created and
\* installed before the column is converted
StoreColumn(ws, pos, dim, col, convOk) ==
  LET old == worldForDim(ws, dim)
      w == IF old.isNil THEN newWorld(dim) ELSE old.w
      ws1 == IF old.isNil THEN setWorldForDim(ws, dim, w) ELSE ws
  IN  IF ~convOk THEN [err |-> TRUE, worlds |-> ws1]
      ELSE [err |-> FALSE,
            worlds |-> IF dim \in Dims
                       THEN [ws1 EXCEPT ![dim] = SomeWorld(SetChunk(w, columnToChunk(col, pos[1], pos[2])))]
                       ELSE ws1]

\* a caller stores a column at one of the positions coords
StoreColumnAt(coords) ==
  /\ pst = "open"
  /\ \E pos \in coords, dim \in DimInputs, convOk \in BOOLEAN :
       \E col \in Columns(pos) :
         LET r == StoreColumn(worlds, pos, dim, col, convOk)
         IN  /\ Called("StoreColumn", [dim |-> dim, pos |-> pos])
             /\ worlds' = r.worlds
             /\ perr' = r.err
             /\ dirty' = IF r.err THEN dirty ELSE TRUE
  /\ pres' = "none"
  /\ UNCHANGED <<pst, pReadOnly, settings, playerSpawns, compressionLevel, streamingSaves,
                 dirExists, disk>>

P_StoreColumn == StoreColumnAt(ProvCoords)

\* what LoadColumn returns: leveldb.ErrNotFound, or the converted column
LoadColumn(ws, pos, dim) ==
  LET w == worldForDim(ws, dim)
  IN  IF w.isNil THEN [found |-> FALSE, col |-> "NotFound"]
      ELSE IF chunkKey(pos[1], pos[2]) \notin DOMAIN w.w.chunks
      THEN [found |-> FALSE, col |-> "NotFound"]
      ELSE [found |-> TRUE,
            col |-> chunkToColumn(w.w.chunks[chunkKey(pos[1], pos[2])])]

DimensionChunkCount(ws, dim) ==
  IF worldForDim(ws, dim).isNil THEN 0 ELSE ChunkCount(worldForDim(ws, dim).w)

\* a caller loads the column at one of the positions coords
LoadColumnAt(coords) ==
  /\ pst = "open"
  /\ \E pos \in coords, dim \in DimInputs :
       /\ Called("LoadColumn", [dim |-> dim, pos |-> pos])
       /\ pres' = LoadColumn(worlds, pos, dim).col
       /\ perr' = ~LoadColumn(worlds, pos, dim).found
  /\ UNCHANGED <<pst, pReadOnly, worlds, settings, playerSpawns, dirty, compressionLevel,
                 streamingSaves, dirExists, disk>>

P_LoadColumn == LoadColumnAt(ProvCoords)

P_SavePlayerSpawnPosition ==
  /\ pst = "open"
  /\ Called("SavePlayerSpawnPosition", NoArg)
  /\ \E id \in PlayerIDs, pos \in SpawnInputs :
       playerSpawns' = (id :> pos) @@ playerSpawns
  /\ dirty' = TRUE
  /\ perr' = FALSE
  /\ pres' = "none"
  /\ UNCHANGED <<pst, pReadOnly, worlds, settings, compressionLevel, streamingSaves,
                 dirExists, disk>>

P_Save ==
  /\ pst = "open"
  /\ Called("Save", NoArg)
  /\ \E fail \in Failures :
       LET r == saveInternal(worlds, settings, disk, dirExists, streamingSaves, dirty, fail)
       IN  /\ (fail # NoFailure => r.err)
           /\ worlds' = r.worlds
           /\ disk' = r.disk
           /\ dirty' = r.dirty
           /\ perr' = r.err
  /\ pres' = "none"
  /\ UNCHANGED <<pst, pReadOnly, settings, playerSpawns, compressionLevel, streamingSaves,
                 dirExists>>

\* Close saves only when the provider is dirty
P_Close ==
  /\ pst = "open"
  /\ Called("Close", NoArg)
  /\ IF dirty
     THEN \E fail \in Failures :
            LET r == saveInternal(worlds, settings, disk, dirExists, streamingSaves, dirty, fail)
            IN  /\ (fail # NoFailure => r.err)
                /\ worlds' = r.worlds
                /\ disk' = r.disk
                /\ dirty' = r.dirty
                /\ perr' = r.err
     ELSE /\ perr' = FALSE
          /\ UNCHANGED <<worlds, disk, dirty>>
  /\ pres' = "none"
  /\ UNCHANGED <<pst, pReadOnly, settings, playerSpawns, compressionLevel, streamingSaves,
                 dirExists>>

PNext ==
  \/ P_New
  \/ P_NewReadOnly
  \/ P_SetCompressionLevel
  \/ P_SetStreamingSaves
  \/ P_SaveSettings
  \/ P_StoreColumn
  \/ P_LoadColumn
  \/ P_SavePlayerSpawnPosition
  \/ P_Save
  \/ P_Close

(***************************************************************************)
(* Files of the format package: the header, the two writers and Read.      *)
(* A zstd stream is kept as the bytes of a frame: the frame magic followed *)
(* by the content.                                                         *)
(***************************************************************************)
CompressionNone == 0

CompressionZstd == 1

\* the byte count above which the bulk writer tries to compress
CompressThreshold == 1024

ZstdMagic == <<40, 181, 47, 253>>

ZstdEncode(data) == ZstdMagic \o data

ZstdDecode(bs) ==
  IF Len(bs) >= 4 /\ Take(bs, 4) = ZstdMagic THEN Ok(Drop(bs, 4), <<>>) ELSE Fail("err")

\* binary.Write of an int16, big-endian two's complement
WriteInt16(v) ==
  LET u == IF v >= 0 THEN v ELSE v + 65536 IN <<u \div 256, u % 256>>

ReadInt16(bs) ==
  IF Len(bs) < 2 THEN Fail("err")
  ELSE LET u == (bs[1] * 256) + bs[2]
       IN  Ok(IF u >= 32768 THEN u - 65536 ELSE u, Drop(bs, 2))

FileHeader(version, compression, length) ==
  WriteInt32(MagicNumber) \o WriteInt16(version) \o <<compression>> \o WriteVarInt(length)

\* the bulk writer: the data is compressed when a level is asked for, the
\* data is longer than the threshold and the compressed form is shorter,
\* which it is for the repetitive worlds written here
WriteWithCompression(w, order, level) ==
  LET data == EncodeWorld(w, order)
      zstd == level # CompressionLevelNone /\ Len(data) > CompressThreshold
  IN  FileHeader(CurrentVersion, IF zstd THEN CompressionZstd ELSE CompressionNone, Len(data))
        \o (IF zstd THEN ZstdEncode(data) ELSE data)

\* the streaming writer: the header, then the world header and the chunks
\* one by one through the data writer
WriteStreaming(w, order, level) ==
  LET zstd == level # CompressionLevelNone
      body == WriteInt32(w.MinSection) \o WriteInt32(w.MaxSection)
                \o WriteBytes(w.UserData) \o WriteVarInt(Len(order))
                \o Concat([i \in 1..Len(order) |->
                             EncodeChunk(w.chunks[order[i]], w.MinSection, w.MaxSection)])
  IN  FileHeader(w.Version, IF zstd THEN CompressionZstd ELSE CompressionNone, 0)
        \o (IF zstd THEN ZstdEncode(body) ELSE body)

\* Read: st is "ok", "err", "panic" or, for a version above CurrentVersion,
\* "unsupported"
ReadData(compression, bs) ==
  IF compression = CompressionZstd
  THEN (LET z == ZstdDecode(bs)
        IN  IF z.st # "ok" THEN [st |-> "err", world |-> NoWorld] ELSE DecodeWorld(z.v))
  ELSE DecodeWorld(bs)

ReadVersion(r) ==
  IF r.st # "ok" THEN [st |-> r.st, world |-> NoWorld] ELSE r.v

Read(bs) ==
  ReadVersion(
    Then(ReadInt32(bs), LAMBDA magic, b1 :
    IF magic # MagicNumber THEN Fail("err") ELSE
    Then(ReadInt16(b1), LAMBDA version, b2 :
    IF version > CurrentVersion THEN Fail("unsupported") ELSE
    Then(ReadByte(b2), LAMBDA compression, b3 :
    Then(ReadVarInt(b3), LAMBDA length, b4 :
    Ok(ReadData(compression, b4), <<>>))))))

(***************************************************************************)
(* The file machine: a caller holds a world, writes it with either writer  *)
(* and reads the file back, encodes one of its chunks, or hands the        *)
(* decoder a stream in which one count field is out of range.              *)
(***************************************************************************)
\* the section ranges of the worlds written: that of the format machine, and
\* the range -4..20 of an overworld
TallRange == <<-4, 20>>

FileRanges == {<<-1, MaxSections - 1>>, TallRange}

\* World.Version is an exported field: NewWorld sets it to CurrentVersion
\* and a caller may assign it
FileVersions == {CurrentVersion, CurrentVersion + 1}

FileLevels == {CompressionLevelNone, CompressionLevelFast, CompressionLevelDefault,
               CompressionLevelBest}

\* world user data: none, or enough for the encoded world to pass the size
\* from which WriteWithCompression compresses
FileUserDatas == {<<>>, [i \in 1..CompressThreshold |-> 7]}

\* the worlds of one section range and version: no chunk, or, in the range
\* of the format machine, one chunk
WorldsOf(r, v) ==
  { [NewWorld(r[1], r[2]) EXCEPT !.Version = v, !.UserData = u] : u \in FileUserDatas }
  \cup
  { [setChunk(NewWorld(r[1], r[2]), MakeChunk(pos, body)) EXCEPT !.Version = v] :
      pos \in IF r = TallRange THEN {} ELSE ChunkCoords,
      body \in ChunkBodies(r[2] - r[1]) }

FileWorlds == UNION { WorldsOf(r, v) : r \in FileRanges, v \in FileVersions }

\* the count fields of a stream
CountFields == {"chunk", "blockPalette", "blockData", "biomePalette", "biomeData",
                "blockEntity", "entity", "tick"}

\* the values put in a count field that is out of range
BadCounts == {-1, -3, 1000001}

\* the stream of a world of one section and one chunk in which the count
\* field f holds n; every other count holds what follows it
CraftedStream(f, n) ==
  LET count(g, m) == WriteVarInt(IF f = g THEN n ELSE m)
  IN  WriteInt32(-1) \o WriteInt32(0) \o WriteBytes(<<>>) \o count("chunk", 1)
        \o WriteInt32(0) \o WriteInt32(0)
        \o count("blockPalette", 1) \o WriteString(StrAir) \o count("blockData", 0)
        \o count("biomePalette", 1) \o WriteString(StrPlains) \o count("biomeData", 0)
        \o count("blockEntity", 0) \o count("entity", 0) \o count("tick", 0)
        \o WriteBytes(<<>>)


InitFileMachine ==
  /\ fw \in FileWorlds
  /\ fbuf = <<>>
  /\ fdec = NoDecode
  /\ fpc = "build"
  /\ fop = "NewWorld"

W_WriteWithCompression ==
  /\ fpc = "build"
  /\ \E order \in Perms(DOMAIN fw.chunks), level \in FileLevels :
       fbuf' = WriteWithCompression(fw, order, level)
  /\ fpc' = "written"
  /\ fop' = "WriteWithCompression"
  /\ UNCHANGED <<fw, fdec>>

W_WriteStreaming ==
  /\ fpc = "build"
  /\ \E order \in Perms(DOMAIN fw.chunks), level \in FileLevels :
       fbuf' = WriteStreaming(fw, order, level)
  /\ fpc' = "written"
  /\ fop' = "WriteStreaming"
  /\ UNCHANGED <<fw, fdec>>

W_Read ==
  /\ fpc = "written"
  /\ fdec' = Read(fbuf)
  /\ fpc' = "read"
  /\ fop' = "Read"
  /\ UNCHANGED <<fw, fbuf>>

\* a chunk of the world is encoded, or, in a world without chunks, a chunk
\* at (0, 0) in which nothing has been set
W_EncodeChunk ==
  /\ fpc = "build"
  /\ \E c \in IF DOMAIN fw.chunks = {}
               THEN {MakeChunk(<<0, 0>>, Body(<<>>, FALSE, <<>>, <<>>))}
               ELSE {fw.chunks[k] : k \in DOMAIN fw.chunks} :
       fbuf' = EncodeChunk(c, fw.MinSection, fw.MaxSection)
  /\ fpc' = "chunk"
  /\ fop' = "EncodeChunk"
  /\ UNCHANGED <<fw, fdec>>

\* a stream from elsewhere reaches the decoder
W_Receive ==
  /\ fpc = "build"
  /\ \E f \in CountFields, n \in BadCounts : fbuf' = CraftedStream(f, n)
  /\ fpc' = "received"
  /\ fop' = "Receive"
  /\ UNCHANGED <<fw, fdec>>

W_DecodeWorld ==
  /\ fpc = "received"
  /\ fdec' = DecodeWorld(fbuf)
  /\ fpc' = "decoded"
  /\ fop' = "DecodeWorld"
  /\ UNCHANGED <<fw, fbuf>>

\* the caller drops the bytes and the result
W_Done ==
  /\ fpc \in {"read", "chunk", "decoded"}
  /\ fbuf' = <<>>
  /\ fdec' = NoDecode
  /\ fpc' = "build"
  /\ fop' = "Done"
  /\ UNCHANGED fw

NextFileMachine ==
  \/ W_WriteWithCompression
  \/ W_WriteStreaming
  \/ W_Read
  \/ W_EncodeChunk
  \/ W_Receive
  \/ W_DecodeWorld
  \/ W_Done

(***************************************************************************)
(* The world machine: a caller makes worlds of any section range with      *)
(* NewWorld, sets chunks at coordinates taken from the whole int32 range,  *)
(* and encodes and decodes the worlds that hold at most MaxChunks chunks.  *)
(***************************************************************************)
\* the section ranges passed to NewWorld: that of the format machine, an
\* empty one and an inverted one
RangeInputs == {<<-1, MaxSections - 1>>, <<0, 0>>, <<4, -4>>}

\* the ends of the int32 range
MaxInt32 == 2147483647

MinInt32 == (-2147483647) - 1

\* chunk coordinates with negative x and z and at the ends of int32
KeyCoords == {<<0, 0>>, <<0, -1>>, <<-1, -1>>, <<-1, 0>>, <<MinInt32, MaxInt32>>}

\* int32 values: the ends of the range and the values around zero
Int32Samples == {MinInt32, -1, 0, 1, MaxInt32}

\* the chunk contents set: nothing, or user data only
KeyBodies == {Body(<<>>, FALSE, <<>>, <<>>), Body(<<>>, FALSE, <<>>, <<9>>)}

InitWorldMachine ==
  /\ fw = NewWorld(-1, MaxSections - 1)
  /\ fbuf = <<>>
  /\ fdec = NoDecode
  /\ fpc = "build"
  /\ fop = "NewWorld"

G_NewWorld ==
  /\ fpc = "build"
  /\ \E r \in RangeInputs : fw' = NewWorld(r[1], r[2])
  /\ fop' = "NewWorld"
  /\ UNCHANGED <<fbuf, fdec, fpc>>

G_SetChunk ==
  /\ fpc = "build"
  /\ \E pos \in KeyCoords, body \in KeyBodies : fw' = SetChunk(fw, MakeChunk(pos, body))
  /\ fop' = "SetChunk"
  /\ UNCHANGED <<fbuf, fdec, fpc>>

G_Encode ==
  /\ fpc = "build"
  /\ ChunkCount(fw) <= MaxChunks
  /\ \E order \in Perms(DOMAIN fw.chunks) : fbuf' = EncodeWorld(fw, order)
  /\ fpc' = "encoded"
  /\ fop' = "EncodeWorld"
  /\ UNCHANGED <<fw, fdec>>

NextWorldMachine ==
  \/ G_NewWorld
  \/ G_SetChunk
  \/ F_SetReadOnly
  \/ G_Encode
  \/ F_Decode
  \/ F_Discard

(***************************************************************************)
(* The background saver: the saveCh and stopCh fields, the channels, the   *)
(* worker goroutines and the callers' threads, interleaved step by step.   *)
(* A channel pair made by EnableBackgroundSaves is named by the number of  *)
(* the call that made it; 0 is nil.  A step that needs the lock waits      *)
(* until no writer holds it.                                               *)
(***************************************************************************)
VARIABLES
  saveCh,       \* the saveCh field
  stopCh,       \* the stopCh field
  buffered,     \* per save channel: the number of requests in its buffer
  stopClosed,   \* the stop channels that have been closed
  workers,      \* per Enable that spawned one: the worker goroutine
  mu,           \* the writer holding p.mu: 0, or the worker's number
  callers,      \* per thread: where it is in the call it is making
  closeState,   \* "open", "closing" (Close was called), "closed" (it returned)
  asyncCalls,   \* SaveAsync calls made
  accepted,     \* requests accepted onto a save channel
  wsaves,       \* executions of saveInternal by workers
  unserved      \* a request was enqueued and no save has run since

svars == <<saveCh, stopCh, buffered, stopClosed, workers, mu, callers, closeState,
           asyncCalls, accepted, wsaves, unserved>>

\* calls made to a provider with a background saver
MaxSaverCalls == 5

\* the capacity of the channel EnableBackgroundSaves makes for the requests
SaveChCapacity == 1

Threads == {"t1", "t2"}

Pairs == 1..MaxSaverCalls

NoWorker == [pc |-> "none", ch |-> 0, stop |-> 0, seenCh |-> 0, seenStop |-> 0]

IdleCaller == [pc |-> "idle", ch |-> 0, stop |-> 0]

SaverFields ==
  /\ saveCh = 0
  /\ stopCh = 0
  /\ buffered = [g \in Pairs |-> 0]
  /\ stopClosed = {}
  /\ workers = [g \in Pairs |-> NoWorker]
  /\ mu = 0
  /\ callers = [t \in Threads |-> IdleCaller]
  /\ closeState = "open"
  /\ asyncCalls = 0
  /\ accepted = 0
  /\ wsaves = 0
  /\ unserved = FALSE

\* a provider opened on a directory that holds an overworld file
SInit ==
  /\ SaverFields
  /\ pst = "open"
  /\ pReadOnly = FALSE
  /\ dirExists = TRUE
  /\ disk = [d \in Dims |-> IF d = "overworld" THEN GoodFile(d) ELSE MissingFile]
  /\ worlds = load([d \in Dims |-> IF d = "overworld" THEN GoodFile(d) ELSE MissingFile]).worlds
  /\ settings = load([d \in Dims |-> IF d = "overworld" THEN GoodFile(d) ELSE MissingFile]).settings
  /\ playerSpawns = NoSpawns
  /\ dirty = FALSE
  /\ compressionLevel = CompressionLevelDefault
  /\ streamingSaves = FALSE
  /\ pop = "New"
  /\ parg = NoArg
  /\ perr = FALSE
  /\ pres = "none"
  /\ calls = 0

\* a thread starts a call
Begins(t, op) ==
  /\ callers[t].pc = "idle"
  /\ closeState = "open"
  /\ calls < MaxSaverCalls
  /\ calls' = calls + 1
  /\ pop' = op

\* a step inside a call, or of a worker
Step(op) ==
  /\ pop' = op
  /\ calls' = calls

\* saveInternal under the lock the caller holds
Saves ==
  LET r == saveInternal(worlds, settings, disk, dirExists, streamingSaves, dirty, NoFailure)
  IN  /\ worlds' = r.worlds
      /\ disk' = r.disk
      /\ dirty' = r.dirty
      /\ perr' = r.err
      /\ unserved' = FALSE

NoSave == UNCHANGED <<worlds, disk, dirty, perr, unserved>>

\* what no step of the saver machine changes
SFrame == UNCHANGED <<pst, pReadOnly, playerSpawns, compressionLevel, streamingSaves,
                      dirExists, parg, pres>>

\* close(stop) when stop is not nil
CloseStop(stop) == stopClosed' = IF stop = 0 THEN stopClosed ELSE stopClosed \cup {stop}

EnableBackgroundSaves(t) ==
  /\ Begins(t, "EnableBackgroundSaves")
  /\ mu = 0
  /\ IF saveCh # 0 /\ stopCh # 0
     THEN UNCHANGED <<saveCh, stopCh, workers>>
     ELSE /\ saveCh' = calls + 1
          /\ stopCh' = calls + 1
          /\ workers' = [workers EXCEPT ![calls + 1] =
                           [pc |-> "loop", ch |-> 0, stop |-> 0,
                            seenCh |-> calls + 1, seenStop |-> calls + 1]]
  /\ NoSave
  /\ SFrame
  /\ UNCHANGED <<buffered, stopClosed, mu, callers, closeState, asyncCalls, accepted,
                 wsaves, settings>>

\* DisableBackgroundSaves that leaves the fields as they are
DisableBackgroundSaves_FieldsKept(t) ==
  /\ Begins(t, "DisableBackgroundSaves")
  /\ mu = 0
  /\ callers' = [callers EXCEPT ![t] = [pc |-> "Disable.close", ch |-> 0, stop |-> stopCh]]
  /\ saveCh' = saveCh
  /\ stopCh' = stopCh
  /\ NoSave
  /\ SFrame
  /\ UNCHANGED <<buffered, stopClosed, workers, mu, closeState, asyncCalls, accepted,
                 wsaves, settings>>

\* DisableBackgroundSaves, under the lock: the fields are cleared
DisableBackgroundSaves(t) ==
  /\ Begins(t, "DisableBackgroundSaves")
  /\ mu = 0
  /\ callers' = [callers EXCEPT ![t] = [pc |-> "Disable.close", ch |-> 0, stop |-> stopCh]]
  /\ saveCh' = 0
  /\ stopCh' = 0
  /\ NoSave
  /\ SFrame
  /\ UNCHANGED <<buffered, stopClosed, workers, mu, closeState, asyncCalls, accepted,
                 wsaves, settings>>

\* DisableBackgroundSaves, after the unlock: the stop channel is closed
DisableClose(t) ==
  /\ callers[t].pc = "Disable.close"
  /\ Step("DisableBackgroundSaves")
  /\ CloseStop(callers[t].stop)
  /\ callers' = [callers EXCEPT ![t] = IdleCaller]
  /\ NoSave
  /\ SFrame
  /\ UNCHANGED <<saveCh, stopCh, buffered, workers, mu, closeState, asyncCalls, accepted,
                 wsaves, settings>>

\* SaveAsync, under the read lock: the channel is read
SaveAsync(t) ==
  /\ Begins(t, "SaveAsync")
  /\ mu = 0
  /\ asyncCalls' = asyncCalls + 1
  /\ callers' = [callers EXCEPT ![t] =
                   IF saveCh = 0 THEN IdleCaller
                   ELSE [pc |-> "SaveAsync.send", ch |-> saveCh, stop |-> 0]]
  /\ NoSave
  /\ SFrame
  /\ UNCHANGED <<saveCh, stopCh, buffered, stopClosed, workers, mu, closeState, accepted,
                 wsaves, settings>>

\* SaveAsync, the non-blocking send on a channel of capacity 1
SaveAsyncSend(t) ==
  /\ callers[t].pc = "SaveAsync.send"
  /\ Step("SaveAsync")
  /\ IF buffered[callers[t].ch] < SaveChCapacity
     THEN /\ buffered' = [buffered EXCEPT ![callers[t].ch] = @ + 1]
          /\ accepted' = accepted + 1
          /\ unserved' = TRUE
     ELSE UNCHANGED <<buffered, accepted, unserved>>
  /\ callers' = [callers EXCEPT ![t] = IdleCaller]
  /\ SFrame
  /\ UNCHANGED <<saveCh, stopCh, stopClosed, workers, mu, closeState, asyncCalls, wsaves,
                 settings, worlds, disk, dirty, perr>>

\* Save: saveInternal under the lock
S_Save(t) ==
  /\ Begins(t, "Save")
  /\ mu = 0
  /\ Saves
  /\ SFrame
  /\ UNCHANGED <<saveCh, stopCh, buffered, stopClosed, workers, mu, callers, closeState,
                 asyncCalls, accepted, wsaves, settings>>

\* SaveSettings: a mutator, under the lock
S_SaveSettings(t) ==
  /\ Begins(t, "SaveSettings")
  /\ mu = 0
  /\ \E s \in SettingsInputs : settings' = s
  /\ dirty' = TRUE
  /\ SFrame
  /\ UNCHANGED <<svars, worlds, disk, perr>>

\* Close, in DisableBackgroundSaves under the lock: the fields are cleared
Close(t) ==
  /\ Begins(t, "Close")
  /\ mu = 0
  /\ callers' = [callers EXCEPT ![t] = [pc |-> "Close.close", ch |-> 0, stop |-> stopCh]]
  /\ saveCh' = 0
  /\ stopCh' = 0
  /\ closeState' = "closing"
  /\ NoSave
  /\ SFrame
  /\ UNCHANGED <<buffered, stopClosed, workers, mu, asyncCalls, accepted, wsaves, settings>>

\* Close, in DisableBackgroundSaves after the unlock: the stop channel is closed
CloseDisable(t) ==
  /\ callers[t].pc = "Close.close"
  /\ Step("Close")
  /\ CloseStop(callers[t].stop)
  /\ callers' = [callers EXCEPT ![t] = [pc |-> "Close.save", ch |-> 0, stop |-> 0]]
  /\ NoSave
  /\ SFrame
  /\ UNCHANGED <<saveCh, stopCh, buffered, workers, mu, closeState, asyncCalls, accepted,
                 wsaves, settings>>

\* Close, under the lock again: a dirty provider is saved, and Close returns
CloseSave(t) ==
  /\ callers[t].pc = "Close.save"
  /\ Step("Close")
  /\ mu = 0
  /\ IF dirty THEN Saves ELSE NoSave
  /\ closeState' = "closed"
  /\ callers' = [callers EXCEPT ![t] = IdleCaller]
  /\ SFrame
  /\ UNCHANGED <<saveCh, stopCh, buffered, stopClosed, workers, mu, asyncCalls, accepted,
                 wsaves, settings>>

\* what a read of a field without the lock may return: the field as it is,
\* or as this goroutine last saw it
Unlocked(field, seen) == {field, seen}

WorkerFrame ==
  /\ SFrame
  /\ UNCHANGED <<saveCh, stopCh, callers, closeState, asyncCalls, accepted, settings>>

\* runSaver at the head of its loop: the select reads p.saveCh and p.stopCh
runSaverSelect(g) ==
  /\ workers[g].pc = "loop"
  /\ Step("runSaver")
  /\ \E c \in Unlocked(saveCh, workers[g].seenCh), s \in Unlocked(stopCh, workers[g].seenStop) :
       workers' = [workers EXCEPT ![g] =
                     [pc |-> "select", ch |-> c, stop |-> s, seenCh |-> c, seenStop |-> s]]
  /\ NoSave
  /\ WorkerFrame
  /\ UNCHANGED <<buffered, stopClosed, mu, wsaves>>

\* a receive that leaves the request in the channel
runSaverReceive_NoTake(g) ==
  /\ workers[g].pc = "select"
  /\ workers[g].ch # 0
  /\ buffered[workers[g].ch] > 0
  /\ Step("runSaver")
  /\ buffered' = buffered
  /\ workers' = [workers EXCEPT ![g].pc = "coalesce"]
  /\ NoSave
  /\ WorkerFrame
  /\ UNCHANGED <<stopClosed, mu, wsaves>>

\* runSaver in its select: a request is received
runSaverReceive(g) ==
  /\ workers[g].pc = "select"
  /\ workers[g].ch # 0
  /\ buffered[workers[g].ch] > 0
  /\ Step("runSaver")
  /\ buffered' = [buffered EXCEPT ![workers[g].ch] = @ - 1]
  /\ workers' = [workers EXCEPT ![g].pc = "coalesce"]
  /\ NoSave
  /\ WorkerFrame
  /\ UNCHANGED <<stopClosed, mu, wsaves>>

\* runSaver in its select: the stop channel is closed, the goroutine returns
runSaverStop(g) ==
  /\ workers[g].pc = "select"
  /\ workers[g].stop \in stopClosed
  /\ Step("runSaver")
  /\ workers' = [workers EXCEPT ![g].pc = "done"]
  /\ NoSave
  /\ WorkerFrame
  /\ UNCHANGED <<buffered, stopClosed, mu, wsaves>>

\* runSaver in its coalesce loop: p.saveCh is read and drained of one more
\* request, or the loop is left
runSaverCoalesce(g) ==
  /\ workers[g].pc = "coalesce"
  /\ Step("runSaver")
  /\ \E c \in Unlocked(saveCh, workers[g].seenCh) :
       IF c # 0 /\ buffered[c] > 0
       THEN /\ buffered' = [buffered EXCEPT ![c] = @ - 1]
            /\ workers' = [workers EXCEPT ![g].ch = c, ![g].seenCh = c]
       ELSE /\ buffered' = buffered
            /\ workers' = [workers EXCEPT ![g].pc = "lock", ![g].seenCh = c]
  /\ NoSave
  /\ WorkerFrame
  /\ UNCHANGED <<stopClosed, mu, wsaves>>

\* runSaver that goes on to save without taking the lock
runSaverLock_NoLock(g) ==
  /\ workers[g].pc = "lock"
  /\ Step("runSaver")
  /\ mu' = mu
  /\ workers' = [workers EXCEPT ![g].pc = "save", ![g].seenCh = saveCh, ![g].seenStop = stopCh]
  /\ NoSave
  /\ WorkerFrame
  /\ UNCHANGED <<buffered, stopClosed, wsaves>>

\* runSaver takes the lock
runSaverLock(g) ==
  /\ workers[g].pc = "lock"
  /\ mu = 0
  /\ Step("runSaver")
  /\ mu' = g
  /\ workers' = [workers EXCEPT ![g].pc = "save", ![g].seenCh = saveCh, ![g].seenStop = stopCh]
  /\ NoSave
  /\ WorkerFrame
  /\ UNCHANGED <<buffered, stopClosed, wsaves>>

\* runSaver saves and releases the lock
runSaverSave(g) ==
  /\ workers[g].pc = "save"
  /\ Step("runSaver.save")
  /\ Saves
  /\ wsaves' = wsaves + 1
  /\ mu' = 0
  /\ workers' = [workers EXCEPT ![g].pc = "loop"]
  /\ WorkerFrame
  /\ UNCHANGED <<buffered, stopClosed>>

SaverNext ==
  \/ \E t \in Threads : EnableBackgroundSaves(t)
  \/ \E t \in Threads : DisableBackgroundSaves(t)
  \/ \E t \in Threads : DisableClose(t)
  \/ \E t \in Threads : SaveAsync(t)
  \/ \E t \in Threads : SaveAsyncSend(t)
  \/ \E t \in Threads : S_Save(t)
  \/ \E t \in Threads : S_SaveSettings(t)
  \/ \E t \in Threads : Close(t)
  \/ \E t \in Threads : CloseDisable(t)
  \/ \E t \in Threads : CloseSave(t)
  \/ \E g \in Pairs : runSaverSelect(g)
  \/ \E g \in Pairs : runSaverReceive(g)
  \/ \E g \in Pairs : runSaverStop(g)
  \/ \E g \in Pairs : runSaverCoalesce(g)
  \/ \E g \in Pairs : runSaverLock(g)
  \/ \E g \in Pairs : runSaverSave(g)

(***************************************************************************)
(* Bit packing.  A 64-bit word, and an int, is the set of the positions of *)
(* its bits that are set; bit 63 is the sign.                              *)
(***************************************************************************)
WordBits == 64

\* the bits of a small non-negative number
BitsOf(n) == {j \in 0..30 : (n \div 2^j) % 2 = 1}

\* int64(v) << off: the bits pushed past bit 63 are lost
ShiftLeft(v, off) == {j + off : j \in v} \cap (0..(WordBits - 1))

\* (1 << b) - 1; a shift by 64 or more gives 0, and 0 - 1 has every bit set
MaskOf(b) == IF b >= WordBits THEN 0..(WordBits - 1) ELSE 0..(b - 1)

\* (w >> off) & mask; the shift of a signed word copies the sign bit in
ShiftRightAnd(w, off, mask) ==
  {j \in mask : IF j + off < WordBits THEN (j + off) \in w ELSE (WordBits - 1) \in w}

\* bits.Len(uint(paletteSize - 1))
RECURSIVE BitsLen(_)
BitsLen(n) == IF n = 0 THEN 0 ELSE 1 + BitsLen(n \div 2)

calculateBitsPerBlock(paletteSize) == IF paletteSize <= 1 THEN 0 ELSE BitsLen(paletteSize - 1)

\* encodeIndices with a slot that is one bit too narrow for its value
encodeIndices_Overlapping(indices, bitsPerBlock) ==
  IF bitsPerBlock = 0 \/ Len(indices) = 0 THEN <<>>
  ELSE LET valuesPerLong == WordBits \div bitsPerBlock
           longCount == (Len(indices) + valuesPerLong - 1) \div valuesPerLong
       IN  [k \in 1..longCount |->
              UNION { ShiftLeft(indices[i], ((i - 1) % valuesPerLong) * (bitsPerBlock - 1)) :
                        i \in {i \in ((k - 1) * valuesPerLong + 1)..(k * valuesPerLong) :
                                 i <= Len(indices)} }]

\* encodeIndices: the word of index i is i / valuesPerLong, and its value is
\* or-ed in at bit (i % valuesPerLong) * bitsPerBlock
encodeIndices(indices, bitsPerBlock) ==
  IF bitsPerBlock = 0 \/ Len(indices) = 0 THEN <<>>
  ELSE LET valuesPerLong == WordBits \div bitsPerBlock
           longCount == (Len(indices) + valuesPerLong - 1) \div valuesPerLong
       IN  [k \in 1..longCount |->
              UNION { ShiftLeft(indices[i], ((i - 1) % valuesPerLong) * bitsPerBlock) :
                        i \in {i \in ((k - 1) * valuesPerLong + 1)..(k * valuesPerLong) :
                                 i <= Len(indices)} }]

\* decodeIndices: zeros when there is nothing to read, and from the first
\* index whose word is missing on
decodeIndices(data, bitsPerBlock, count) ==
  IF bitsPerBlock = 0 \/ Len(data) = 0 THEN [i \in 1..count |-> {}]
  ELSE LET valuesPerLong == WordBits \div bitsPerBlock
           mask == MaskOf(bitsPerBlock)
       IN  [i \in 1..count |->
              IF (i - 1) \div valuesPerLong >= Len(data) THEN {}
              ELSE ShiftRightAnd(data[(i - 1) \div valuesPerLong + 1],
                                 ((i - 1) % valuesPerLong) * bitsPerBlock, mask)]

(***************************************************************************)
(* Block placement of the command-line converter in a section of 4096      *)
(* blocks.                                                                 *)
(***************************************************************************)
SectionVolume == 4096

\* the index of value in the palette, or the length of the palette
findOrAddToPalette(palette, value) ==
  IF \E i \in 1..Len(palette) : palette[i] = value
  THEN (CHOOSE i \in 1..Len(palette) :
          palette[i] = value /\ \A j \in 1..(i - 1) : palette[j] # value) - 1
  ELSE Len(palette)

\* the loop of calculateBitsPerEntry: shifts until size is 0
RECURSIVE ShiftCount(_)
ShiftCount(size) == IF size > 0 THEN 1 + ShiftCount(size \div 2) ELSE 0

calculateBitsPerEntry(paletteSize) == IF paletteSize <= 1 THEN 0 ELSE ShiftCount(paletteSize - 1)

\* the second loop of repackBlockData: 4096 values into words of newBits
PackValues(values, newBits) ==
  LET newValuesPerLong == WordBits \div newBits
      requiredLongs == (SectionVolume + newValuesPerLong - 1) \div newValuesPerLong
  IN  [k \in 1..requiredLongs |->
         UNION { ShiftLeft(values[i], ((i - 1) % newValuesPerLong) * newBits) :
                   i \in {i \in ((k - 1) * newValuesPerLong + 1)..(k * newValuesPerLong) :
                            i <= SectionVolume} }]

\* the first loop of repackBlockData: the 4096 values of the old words
ExtractValues(oldData, oldBits) ==
  LET oldValuesPerLong == WordBits \div oldBits
      mask == MaskOf(oldBits)
  IN  [i \in 1..SectionVolume |->
         IF (i - 1) \div oldValuesPerLong < Len(oldData)
         THEN ShiftRightAnd(oldData[(i - 1) \div oldValuesPerLong + 1],
                            ((i - 1) % oldValuesPerLong) * oldBits, mask)
         ELSE {}]

\* repackBlockData that packs the values without extracting them first
repackBlockData_Reinterpret(oldData, oldPaletteSize, newPaletteSize) ==
  LET oldBits == calculateBitsPerEntry(oldPaletteSize)
      newBits == calculateBitsPerEntry(newPaletteSize)
      newValuesPerLong == WordBits \div newBits
      requiredLongs == (SectionVolume + newValuesPerLong - 1) \div newValuesPerLong
  IN  IF oldBits = newBits \/ oldBits = 0 THEN oldData
      ELSE [k \in 1..requiredLongs |-> IF k <= Len(oldData) THEN oldData[k] ELSE {}]

repackBlockData(oldData, oldPaletteSize, newPaletteSize) ==
  LET oldBits == calculateBitsPerEntry(oldPaletteSize)
      newBits == calculateBitsPerEntry(newPaletteSize)
  IN  IF oldBits = newBits \/ oldBits = 0 THEN oldData
      ELSE PackValues(ExtractValues(oldData, oldBits), newBits)

\* the part of convertBlock that stores one block state in a section
StoreBlock(palette, data, localX, localY, localZ, blockStateStr) ==
  LET oldPaletteSize == Len(palette)
      paletteIndex == findOrAddToPalette(palette, blockStateStr)
      palette1 == IF paletteIndex >= oldPaletteSize THEN Append(palette, blockStateStr)
                  ELSE palette
      needsRepacking ==
        /\ paletteIndex >= oldPaletteSize
        /\ Len(data) > 0
        /\ calculateBitsPerEntry(oldPaletteSize) # calculateBitsPerEntry(Len(palette1))
      data1 == IF needsRepacking THEN repackBlockData(data, oldPaletteSize, Len(palette1))
               ELSE data
      blockIndex == localY * 256 + localZ * 16 + localX
      bitsPerEntry == calculateBitsPerEntry(Len(palette1))
      valuesPerLong == WordBits \div bitsPerEntry
      longIndex == blockIndex \div valuesPerLong
      bitOffset == (blockIndex % valuesPerLong) * bitsPerEntry
      requiredLongs == (SectionVolume + valuesPerLong - 1) \div valuesPerLong
      data2 == IF Len(data1) < requiredLongs
               THEN [k \in 1..requiredLongs |-> IF k <= Len(data1) THEN data1[k] ELSE {}]
               ELSE data1
  IN  [BlockPalette |-> palette1,
       BlockData |-> IF bitsPerEntry > 0
                     THEN [data2 EXCEPT ![longIndex + 1] =
                             (@ \ ShiftLeft(MaskOf(bitsPerEntry), bitOffset))
                               \cup ShiftLeft(BitsOf(paletteIndex), bitOffset)]
                     ELSE data,
       paletteIndex |-> paletteIndex,
       blockIndex |-> blockIndex]

(***************************************************************************)
(* The packing machine: either an index sequence is encoded and decoded,   *)
(* or blocks are placed in a section.                                      *)
(***************************************************************************)
VARIABLES
  kpc,            \* "idle", "indices", "encoded", "decoded", or "section"
  indices,        \* the index sequence given to encodeIndices
  bitsPerBlock,   \* its bit width
  packed,         \* the words encodeIndices returned
  unpacked,       \* the indices decodeIndices returned
  BlockPalette,   \* the section's block palette
  BlockData,      \* the section's block data
  prevPalette,    \* the palette before the last placement
  prevData,       \* the block data before the last placement
  placed          \* the last placement: its block index and palette index

kvars == <<kpc, indices, bitsPerBlock, packed, unpacked, BlockPalette, BlockData,
           prevPalette, prevData, placed>>

NoPlacement == [blockIndex |-> -1, paletteIndex |-> -1]

KIdle ==
  /\ kpc = "idle"
  /\ indices = <<>>
  /\ bitsPerBlock = 0
  /\ packed = <<>>
  /\ unpacked = <<>>
  /\ BlockPalette = <<>>
  /\ BlockData = <<>>
  /\ prevPalette = <<>>
  /\ prevData = <<>>
  /\ placed = NoPlacement

\* palette sizes, and the widths beyond those a small palette size gives
PaletteSizes == {2, 3, 4, 5, 9, 17, 129, 2^20 + 1, 2^21 + 1, 2^30 + 1}

WideWidths == {32, 33, 63, 64}

Widths == {calculateBitsPerBlock(s) : s \in PaletteSizes} \cup WideWidths

Counts == {0, 1, 2, 3, 4, 9, 10, 64, 65, SectionVolume}

\* the largest index of a width: every bit set, the sign excepted
TopIndex(b) == IF b >= WordBits THEN 0..(WordBits - 2) ELSE 0..(b - 1)

\* an index sequence: the largest index throughout, the largest alternating
\* with 0, or 1, the highest bit alone and the largest in turn
IndexPatterns == {"full", "alternate", "cycle"}

IndexAt(p, b, i) ==
  IF p = "full" THEN TopIndex(b)
  ELSE IF p = "alternate" THEN (IF i % 2 = 0 THEN {} ELSE TopIndex(b))
  ELSE IF i % 3 = 0 THEN {0}
  ELSE IF i % 3 = 1 THEN {CHOOSE j \in TopIndex(b) : \A l \in TopIndex(b) : l <= j}
  ELSE TopIndex(b)

\* the block states placed, and the local coordinates they are placed at
BlockNames == <<"minecraft:air", "minecraft:stone", "minecraft:dirt", "minecraft:sand",
                "minecraft:gravel", "minecraft:clay", "minecraft:ice", "minecraft:snow",
                "minecraft:glass", "minecraft:tnt", "minecraft:sponge", "minecraft:bricks",
                "minecraft:melon", "minecraft:pumpkin", "minecraft:cobweb", "minecraft:cactus">>

PlacedNames == {"minecraft:air", "minecraft:granite", "minecraft:basalt"}

PlacedAt == {<<5, 0, 0>>, <<15, 15, 15>>}

\* a section with a palette of s block states in which block i holds i mod s
PatternSection(s) ==
  [BlockPalette |-> [i \in 1..s |-> BlockNames[i]],
   BlockData |-> IF s <= 1 THEN <<>>
                 ELSE PackValues([i \in 1..SectionVolume |-> BitsOf((i - 1) % s)],
                                 calculateBitsPerEntry(s))]

SectionSizes == {1, 2, 4, 16}

KInit ==
  \/ /\ kpc = "indices"
     /\ \E b \in Widths, n \in Counts, p \in IndexPatterns :
          /\ bitsPerBlock = b
          /\ indices = [i \in 1..n |-> IndexAt(p, b, i - 1)]
     /\ packed = <<>>
     /\ unpacked = <<>>
     /\ BlockPalette = <<>>
     /\ BlockData = <<>>
     /\ prevPalette = <<>>
     /\ prevData = <<>>
     /\ placed = NoPlacement
  \/ /\ kpc = "section"
     /\ indices = <<>>
     /\ bitsPerBlock = 0
     /\ packed = <<>>
     /\ unpacked = <<>>
     /\ \E s \in SectionSizes :
          /\ BlockPalette = PatternSection(s).BlockPalette
          /\ BlockData = PatternSection(s).BlockData
     /\ prevPalette = <<>>
     /\ prevData = <<>>
     /\ placed = NoPlacement

K_encodeIndices ==
  /\ kpc = "indices"
  /\ kpc' = "encoded"
  /\ packed' = encodeIndices(indices, bitsPerBlock)
  /\ UNCHANGED <<indices, bitsPerBlock, unpacked, BlockPalette, BlockData, prevPalette,
                 prevData, placed>>

K_decodeIndices ==
  /\ kpc = "encoded"
  /\ kpc' = "decoded"
  /\ unpacked' = decodeIndices(packed, bitsPerBlock, Len(indices))
  /\ UNCHANGED <<indices, bitsPerBlock, packed, BlockPalette, BlockData, prevPalette,
                 prevData, placed>>

K_convertBlock ==
  /\ kpc = "section"
  /\ \E at \in PlacedAt, name \in PlacedNames :
       LET r == StoreBlock(BlockPalette, BlockData, at[1], at[2], at[3], name)
       IN  /\ BlockPalette' = r.BlockPalette
           /\ BlockData' = r.BlockData
           /\ placed' = [blockIndex |-> r.blockIndex, paletteIndex |-> r.paletteIndex]
  /\ prevPalette' = BlockPalette
  /\ prevData' = BlockData
  /\ UNCHANGED <<kpc, indices, bitsPerBlock, packed, unpacked>>

KNext ==
  \/ K_encodeIndices
  \/ K_decodeIndices
  \/ K_convertBlock

vars == <<fw, fbuf, fdec, fpc, fop, pst, pReadOnly, worlds, settings, playerSpawns,
          dirty, compressionLevel, streamingSaves, dirExists, disk, pop, parg, perr,
          pres, calls, saveCh, stopCh, buffered, stopClosed, workers, mu, callers,
          closeState, asyncCalls, accepted, wsaves, unserved, kpc, indices,
          bitsPerBlock, packed, unpacked, BlockPalette, BlockData, prevPalette,
          prevData, placed>>

\* the provider machine; the other machines stand still
Init == PInit /\ FInitIdle /\ SaverFields /\ KIdle

Next == PNext /\ UNCHANGED fvars /\ UNCHANGED svars /\ UNCHANGED kvars

Spec == Init /\ [][Next]_vars

\* the provider machine before any provider is constructed
PInitIdle ==
  /\ PInit
  /\ ~dirExists

\* the format machine; the provider machine stands still
InitFormat == PInitIdle /\ SaverFields /\ KIdle /\ FInit

NextFormat == FNext /\ UNCHANGED pvars /\ UNCHANGED svars /\ UNCHANGED kvars

SpecFormat == InitFormat /\ [][NextFormat]_vars

\* the file machine; the provider machine stands still
InitFile == PInitIdle /\ SaverFields /\ KIdle /\ InitFileMachine

NextFile == NextFileMachine /\ UNCHANGED pvars /\ UNCHANGED svars /\ UNCHANGED kvars

SpecFile == InitFile /\ [][NextFile]_vars

\* the world machine; the provider machine stands still
InitWorld == PInitIdle /\ SaverFields /\ KIdle /\ InitWorldMachine

NextWorld == NextWorldMachine /\ UNCHANGED pvars /\ UNCHANGED svars /\ UNCHANGED kvars

SpecWorld == InitWorld /\ [][NextWorld]_vars

\* the provider with its background saver; the format machine stands still
InitSaver == SInit /\ FInitIdle /\ KIdle

NextSaver == SaverNext /\ UNCHANGED fvars /\ UNCHANGED kvars

SpecSaver == InitSaver /\ [][NextSaver]_vars

\* the packing machine; the other machines stand still
InitPack == PInitIdle /\ FInitIdle /\ SaverFields /\ KInit

NextPack == KNext /\ UNCHANGED pvars /\ UNCHANGED fvars /\ UNCHANGED svars

SpecPack == InitPack /\ [][NextPack]_vars

\* the chunk positions of the column machine: the origin, and chunks with
\* negative and positive coordinates away from it
ConvCoords == {<<0, 0>>, <<-1, 1>>, <<2, -3>>}

\* the column machine: a provider that New returned for an empty directory,
\* whose callers store and load columns at the positions ConvCoords
InitColumnMachine ==
  /\ pst = "open"
  /\ pReadOnly = FALSE
  /\ worlds = NoWorlds
  /\ settings = defaultSettings
  /\ playerSpawns = NoSpawns
  /\ dirty = FALSE
  /\ compressionLevel = CompressionLevelDefault
  /\ streamingSaves = FALSE
  /\ dirExists = TRUE
  /\ disk = [d \in Dims |-> MissingFile]
  /\ pop = "New"
  /\ parg = NoArg
  /\ perr = FALSE
  /\ pres = "none"
  /\ calls = 0

V_StoreColumn == StoreColumnAt(ConvCoords)

V_LoadColumn == LoadColumnAt(ConvCoords)

NextColumnMachine == V_StoreColumn \/ V_LoadColumn

InitColumn == InitColumnMachine /\ FInitIdle /\ SaverFields /\ KIdle

NextColumn ==
  NextColumnMachine /\ UNCHANGED fvars /\ UNCHANGED svars /\ UNCHANGED kvars

SpecColumn == InitColumn /\ [][NextColumn]_vars

(***************************************************************************)
(* Properties of the provider machine.                                     *)
(***************************************************************************)
SaveCalls == {"Save", "Close"}

Constructors == {"New", "NewReadOnly"}

\* C2: a Save or Close that returns an error leaves every world (its
\* dirty-chunk set and its user data) and the provider's dirty flag as they
\* were before the call.
C2_FailedSaveLeavesState ==
  [][(pop' \in SaveCalls /\ perr') => (worlds' = worlds /\ dirty' = dirty)]_vars

\* C3 as stated: a successful Save leaves the provider clean; every
\* successful mutator, SetCompressionLevel and SetStreamingSaves included,
\* leaves it dirty; and a dirty provider stays dirty until a save succeeds.
C3_EveryMutatorDirties ==
  [][/\ (pop' = "Save" /\ ~perr') => ~dirty'
     /\ (pop' \in {"SaveSettings", "StoreColumn", "SavePlayerSpawnPosition",
                   "SetCompressionLevel", "SetStreamingSaves"} /\ ~perr') => dirty'
     /\ (dirty /\ ~dirty' /\ pop' \notin Constructors) => (pop' \in SaveCalls /\ ~perr')
    ]_vars

\* C3 amended: a successful Save leaves the provider clean; a successful
\* SaveSettings, StoreColumn or SavePlayerSpawnPosition leaves it dirty;
\* SetCompressionLevel and SetStreamingSaves leave the dirty flag as it was;
\* and a dirty provider stays dirty until a Save or Close succeeds.
C3_DirtyTracking ==
  [][/\ (pop' = "Save" /\ ~perr') => ~dirty'
     /\ (pop' \in {"SaveSettings", "StoreColumn", "SavePlayerSpawnPosition"} /\ ~perr')
          => dirty'
     /\ (pop' \in {"SetCompressionLevel", "SetStreamingSaves"}) => (dirty' = dirty)
     /\ (dirty /\ ~dirty' /\ pop' \notin Constructors) => (pop' \in SaveCalls /\ ~perr')
    ]_vars

\* a Save has just succeeded on a provider that mutators had made dirty
C3_Witness ==
  /\ pop = "Save" /\ ~perr /\ ~dirty
  /\ playerSpawns # NoSpawns
  /\ ~worlds["nether"].isNil

\* the provider state the files encode: what a provider constructed on the
\* directory holds
ChunksOf(ws, dim) == IF ws[dim].isNil THEN <<>> ELSE ws[dim].w.chunks

DiskReflectsProvider ==
  LET r == load(disk)
  IN  /\ ~r.err
      /\ \A d \in Dims : ChunksOf(r.worlds, d) = ChunksOf(worlds, d)
      /\ r.settings = settings
      /\ playerSpawns = NoSpawns

\* C4: when Save or Close returns without error, the files encode a state
\* that includes every StoreColumn, SaveSettings and
\* SavePlayerSpawnPosition made before.
C4_SaveReflectsMutations ==
  (pop \in SaveCalls /\ ~perr) => DiskReflectsProvider

\* C6: on a provider opened read-only, every mutator and every save returns
\* success, leaves the provider clean, does not create the directory and
\* leaves the files as they were.
C6_ReadOnlyInvariance ==
  [][(pReadOnly /\ pst = "open"
        /\ pop' \in {"StoreColumn", "SaveSettings", "SavePlayerSpawnPosition", "Save", "Close"})
       => (~perr' /\ ~dirty' /\ dirExists' = dirExists /\ disk' = disk)]_vars

\* C8: after StoreColumn(pos, dim, col) returns nil, the world for dim holds
\* a chunk at pos and the provider is dirty.
C8_StoreColumnInstalls ==
  (pop = "StoreColumn" /\ ~perr) =>
    /\ DimensionChunkCount(worlds, parg.dim) >= 1
    /\ LoadColumn(worlds, parg.pos, parg.dim).found
    /\ dirty

\* a file that is present and cannot be opened or decoded
PresentFileBad(f) ==
  f.exists /\ (~f.openable \/ f.magic # MagicNumber \/ f.version > CurrentVersion
                 \/ ~f.payload.valid)

\* C9: New returns an error and no provider whenever a present dimension
\* file cannot be opened or decoded, whichever file it is and whatever the
\* others hold; it returns a provider when every present file is good, and
\* the dimensions whose file is missing then have no world and no chunk.
C9_Construction ==
  pop = "New" =>
    /\ (\E d \in Dims : PresentFileBad(disk[d])) => (pst = "failed" /\ perr)
    /\ (dirExists /\ \A d \in Dims : ~PresentFileBad(disk[d])) =>
         /\ pst = "open" /\ ~perr
         /\ \A d \in Dims : ~disk[d].exists =>
              (worlds[d].isNil /\ DimensionChunkCount(worlds, d) = 0)

\* New has failed on a directory whose overworld file is good and whose end
\* file is not
C9_Witness ==
  /\ pop = "New" /\ pst = "failed"
  /\ disk["overworld"] = GoodFile("overworld")
  /\ ~disk["nether"].exists
  /\ PresentFileBad(disk["end"])

\* C26: a StoreColumn that returns an error leaves the worlds, with the
\* dimensions that have none, and the dirty flag as they were, so that a
\* later Save writes no file for a dimension that had no world.
C26_FailedStoreColumn ==
  [][(pop' = "StoreColumn" /\ perr') => (worlds' = worlds /\ dirty' = dirty)]_vars

\* what a provider constructed on the directory would get from a file
SavedWorld(f, dim) == readWorld(f, dim).world

\* C27: after a Save or Close that returns an error, every dimension file
\* that could be read before the call can still be read, and holds the
\* world it held before or the one the provider holds now.
C27_FailedSaveKeepsFiles ==
  [][(pop' \in SaveCalls /\ perr') =>
       \A d \in Dims :
         (disk[d].exists /\ disk[d].openable /\ readWorld(disk[d], d).st = "ok") =>
           /\ disk'[d].exists /\ disk'[d].openable
           /\ readWorld(disk'[d], d).st = "ok"
           /\ \/ SavedWorld(disk'[d], d) = SavedWorld(disk[d], d)
              \/ /\ ~worlds'[d].isNil
                 /\ SavedWorld(disk'[d], d).chunks = worlds'[d].w.chunks
                 /\ SavedWorld(disk'[d], d).UserData = worlds'[d].w.UserData
    ]_vars

\* C28: a provider constructed on the directory right after a successful
\* Save of a provider whose settings were set with SaveSettings has the
\* same settings, whichever dimensions hold chunks.
C28_SettingsSurvive ==
  [][(pop = "Save" /\ ~perr /\ settings \in SettingsInputs
        /\ pop' \in Constructors /\ pst' = "open")
       => settings' = settings]_vars

\* C29: a provider constructed on the directory right after a successful
\* Save, which left the provider clean, of a provider holding player spawn
\* positions has the same positions.
C29_SpawnsSurvive ==
  [][(pop = "Save" /\ ~perr /\ ~dirty /\ playerSpawns # NoSpawns
        /\ pop' \in Constructors /\ pst' = "open")
       => playerSpawns' = playerSpawns]_vars

(***************************************************************************)
(* Properties of the column conversion.                                    *)
(***************************************************************************)
\* the positions of a column's block entities and scheduled block updates
Positions(col) ==
  <<[i \in DOMAIN col.BlockEntities |-> col.BlockEntities[i].Pos],
    [i \in DOMAIN col.ScheduledBlocks |-> col.ScheduledBlocks[i].Pos]>>

\* the chunk the provider holds at pos in dim
StoredChunk(ws, pos, dim) == worldForDim(ws, dim).w.chunks[chunkKey(pos[1], pos[2])]

\* the packed byte holds x & 0xF in its low nibble and z & 0xF in its high
\* nibble, and Position() gives back both nibbles and y
PackedAs(e, p) ==
  /\ e.PackedXZ \in 0..255
  /\ e.PackedXZ % 16 = p[1] % 16
  /\ e.PackedXZ \div 16 = p[3] % 16
  /\ Position(e) = <<p[1] % 16, p[2], p[3] % 16>>

\* C30: after StoreColumn stored a column at a chunk position, LoadColumn of
\* that position returns every block entity and every scheduled block update
\* at the absolute position it had in the stored column, whichever chunk it
\* is; the stored chunk packs x & 0xF and z & 0xF into the nibbles of
\* packed_xz and Position() inverts the packing.
C30_PositionsSurvive ==
  (pop = "StoreColumn" /\ ~perr /\ parg.dim \in Dims) =>
    \A col \in Columns(parg.pos) :
      /\ LoadColumn(worlds, parg.pos, parg.dim).found
      /\ Positions(LoadColumn(worlds, parg.pos, parg.dim).col) = Positions(col)
      /\ \A i \in DOMAIN col.BlockEntities :
           PackedAs(StoredChunk(worlds, parg.pos, parg.dim).BlockEntities[i],
                    col.BlockEntities[i].Pos)
      /\ \A i \in DOMAIN col.ScheduledBlocks :
           PackedAs(StoredChunk(worlds, parg.pos, parg.dim).ScheduledTicks[i],
                    col.ScheduledBlocks[i].Pos)

(***************************************************************************)
(* Properties of the file machine.                                         *)
(***************************************************************************)
RECURSIVE Repeat(_, _)
Repeat(bs, n) == IF n <= 0 THEN <<>> ELSE bs \o Repeat(bs, n - 1)

\* "minecraft:air" and "minecraft:plains" in ASCII
AirBytes == <<109, 105, 110, 101, 99, 114, 97, 102, 116, 58, 97, 105, 114>>

PlainsBytes == <<109, 105, 110, 101, 99, 114, 97, 102, 116, 58, 112, 108, 97, 105, 110, 115>>

\* the chunk at (0, 0) with no section set and nothing else in it, encoded
\* in a world of section range -4..20
EmptyChunkEncoded ==
  /\ fpc = "chunk"
  /\ fw.MinSection = -4 /\ fw.MaxSection = 20
  /\ DOMAIN fw.chunks = {}

\* C11 as stated: the encoding is eight 00 bytes, 24 times the empty section
\* with the prefixes 01 0D .. 00 01 10 .. 00, and five 00 bytes.
C11_EmptyChunkBytesPlain ==
  EmptyChunkEncoded =>
    fbuf = Repeat(<<0>>, 8)
             \o Repeat(<<1, 13>> \o AirBytes \o <<0, 1, 16>> \o PlainsBytes \o <<0>>, 24)
             \o Repeat(<<0>>, 5)

\* C11 amended: the encoding is eight 00 bytes, 24 times the empty section
\* whose count and length prefixes are the zig-zag varints of 1, 13, 0, 1,
\* 16 and 0, that is 02 1A .. 00 02 20 .. 00, and five 00 bytes.
C11_EmptyChunkBytes ==
  EmptyChunkEncoded =>
    fbuf = Repeat(<<0>>, 8)
             \o Repeat(<<2, 26>> \o AirBytes \o <<0, 2, 32>> \o PlainsBytes \o <<0>>, 24)
             \o Repeat(<<0>>, 5)

C11_Witness == EmptyChunkEncoded /\ Len(fbuf) = 853

\* C12: every file either writer produces starts with the magic 50 69 6C 65
\* and the version field 00 01, and Read never refuses such a file as being
\* of an unsupported version.
C12_HeaderVersion ==
  /\ (fpc \in {"written", "read"}) => (Take(fbuf, 6) = <<80, 105, 108, 101, 0, 1>>)
  /\ (fpc = "read") => (fdec.st # "unsupported")

\* a stream in which a count field is negative, or the chunk count is above
\* 1,000,000
CountOutOfRange(bs) ==
  \E f \in CountFields, n \in BadCounts :
    /\ bs = CraftedStream(f, n)
    /\ (n < 0 \/ f = "chunk")

\* C13: the decoder returns an error, neither a world nor a panic, for every
\* stream in which a count field is negative or the chunk count is above
\* 1,000,000.
C13_CountsRejected ==
  (fpc = "decoded" /\ CountOutOfRange(fbuf)) => (fdec.st = "err")

(***************************************************************************)
(* Properties of the world machine.                                        *)
(***************************************************************************)
\* C23: the world a caller holds and the world a decode returned have
\* MinSection < MaxSection, and no decode computes a negative section count
\* (the slice it would make of it aborts the call).
C23_SectionRange ==
  /\ fw.MinSection < fw.MaxSection
  /\ fdec.st # "panic"
  /\ fdec.st = "ok" => fdec.world.MinSection < fdec.world.MaxSection

\* two different coordinate pairs never have the same key
KeysDistinct ==
  \A x1, z1, x2, z2 \in Int32Samples :
    <<x1, z1>> # <<x2, z2>> => chunkKey(x1, z1) # chunkKey(x2, z2)

\* C24: chunkKey is injective, every chunk of a world is found under its own
\* coordinates, and a SetChunk on a world that is not read-only puts the
\* chunk under its coordinates, leaves the chunk of every other coordinate
\* pair as it was and raises ChunkCount by one exactly when the pair held no
\* chunk before.
C24_ChunkKeyInjective ==
  [][/\ KeysDistinct
     /\ \A k \in DOMAIN fw.chunks : Chunk(fw, fw.chunks[k].X, fw.chunks[k].Z) = <<fw.chunks[k]>>
     /\ (fop' = "SetChunk" /\ ~fw.readOnly) =>
          \E pos \in KeyCoords, body \in KeyBodies :
            /\ Chunk(fw', pos[1], pos[2]) = <<MakeChunk(pos, body)>>
            /\ \A q \in KeyCoords \ {pos} : Chunk(fw', q[1], q[2]) = Chunk(fw, q[1], q[2])
            /\ ChunkCount(fw') =
                 ChunkCount(fw) + (IF Chunk(fw, pos[1], pos[2]) = <<>> THEN 1 ELSE 0)
    ]_vars

\* C24 witness: chunks were set at (0, -1), (-1, -1), (-1, 0) and at the ends
\* of the int32 range, the one at (0, -1) twice, and all four are found.
C24_Witness ==
  /\ fop = "SetChunk"
  /\ ChunkCount(fw) = 4
  /\ Chunk(fw, 0, -1) = <<MakeChunk(<<0, -1>>, Body(<<>>, FALSE, <<>>, <<9>>))>>
  /\ Chunk(fw, -1, -1) = <<MakeChunk(<<-1, -1>>, Body(<<>>, FALSE, <<>>, <<>>))>>
  /\ Chunk(fw, -1, 0) # <<>>
  /\ Chunk(fw, MinInt32, MaxInt32) # <<>>
  /\ Chunk(fw, 0, 0) = <<>>

(***************************************************************************)
(* Properties of the provider with its background saver.                   *)
(***************************************************************************)
\* background saves were enabled and have not been disabled since
NeverDisabled ==
  /\ saveCh # 0
  /\ closeState = "open"
  /\ \A g \in Pairs : workers[g].pc # "none" => g = saveCh

\* no call is in progress and no worker can take a step
Settled ==
  /\ \A t \in Threads : callers[t].pc = "idle"
  /\ \A g \in Pairs :
       \/ workers[g].pc \in {"none", "done"}
       \/ /\ workers[g].pc = "select"
          /\ workers[g].ch = 0 \/ buffered[workers[g].ch] = 0
          /\ workers[g].stop \notin stopClosed

\* C14: no request channel ever holds more than one pending request, the
\* workers never save more often than requests were accepted, and with
\* background saves enabled and never disabled, once the SaveAsync calls
\* that enqueued a request have returned and the worker has come to rest, it
\* has saved at least once and at most as often as SaveAsync was called.
C14_Coalescing ==
  /\ \A g \in Pairs : buffered[g] <= 1
  /\ wsaves <= accepted
  /\ accepted <= asyncCalls
  /\ (NeverDisabled /\ Settled /\ accepted >= 1) => (wsaves >= 1 /\ wsaves <= asyncCalls)

\* C14 witness: two requests were accepted in succession and coalesced into
\* one save by the worker.
C14_Witness ==
  /\ NeverDisabled
  /\ Settled
  /\ asyncCalls = 2
  /\ accepted = 2
  /\ wsaves = 1

\* C15: when every call has returned and every worker has come to rest, no
\* enqueued request is left without a save at or after its enqueueing.
C15_RequestServed == Settled => ~unserved

\* C16: once Close has returned, no worker executes saveInternal and no
\* dimension file changes.
C16_NoSaveAfterClose ==
  [][closeState = "closed" => (wsaves' = wsaves /\ disk' = disk)]_vars

\* C19: a worker whose stop channel has been closed is never left waiting in
\* a select in which neither channel can ever be ready.
C19_WorkerTerminates ==
  \A g \in Pairs :
    g \in stopClosed =>
      ~(workers[g].pc = "select" /\ workers[g].ch = 0 /\ workers[g].stop = 0)

\* C20: EnableBackgroundSaves while enabled spawns no worker, and a worker
\* that has received a request received it from the channel made by the
\* Enable that spawned it.
C20_OneConsumer ==
  /\ \A g \in Pairs : workers[g].pc = "coalesce" => workers[g].ch = g
  /\ \A g, h \in Pairs :
       (g # h /\ workers[g].pc # "none" /\ workers[h].pc # "none" /\ g < h)
         => g \in stopClosed \/ \E t \in Threads : callers[t].stop = g

\* C21: the saveCh, stopCh and settings fields are written only while no
\* worker holds the lock, and a worker reads saveCh and stopCh, at the head
\* of its loop and in its coalesce loop, only while it holds the lock.
C21_FieldsUnderLock ==
  [][/\ (<<saveCh, stopCh, settings>>' # <<saveCh, stopCh, settings>>) => mu = 0
     /\ \A g \in Pairs :
          (workers[g].pc \in {"loop", "coalesce"} /\ workers'[g] # workers[g]) => mu = g
    ]_vars

\* the provider state a save reads and writes
SavedState == <<worlds, settings, playerSpawns, dirty, compressionLevel, streamingSaves, disk>>

C25_NoChannelPanic ==
  [][/\ \A t \in Threads :
          (callers[t].pc \in {"Disable.close", "Close.close"}
             /\ callers'[t].pc # callers[t].pc /\ callers[t].stop # 0)
            => (callers[t].stop \notin stopClosed /\ callers[t].stop \in stopClosed')
     /\ \A t, u \in Threads :
          (t # u /\ callers[t].stop # 0) => callers[u].stop # callers[t].stop
     /\ stopCh \notin stopClosed
     /\ \A t \in Threads : callers[t].pc = "SaveAsync.send" => callers[t].ch \in Pairs
     /\ (saveCh = 0 /\ stopCh = 0 /\ calls' = calls + 1
           /\ pop' \in {"DisableBackgroundSaves", "SaveAsync"})
          => /\ UNCHANGED <<saveCh, stopCh, buffered, stopClosed, workers, mu, SavedState>>
             /\ \A t \in Threads :
                  callers'[t] # callers[t] => (callers'[t].ch = 0 /\ callers'[t].stop = 0)
    ]_vars

\* C25 witness: one DisableBackgroundSaves has closed the stop channel of a
\* running saver and a second one, in progress, found the field nil, after
\* a SaveAsync on the disabled provider.
C25_Witness ==
  /\ stopClosed # {}
  /\ saveCh = 0
  /\ asyncCalls >= 1 /\ accepted = 0
  /\ \E t \in Threads : callers[t].pc = "Disable.close" /\ callers[t].stop = 0

(***************************************************************************)
(* Properties of the packing machine.                                      *)
(***************************************************************************)
\* C17: decoding the encoded indices with the same width and count gives the
\* indices back, the number of words is the count divided by the values per
\* word, rounded up, and every value lies whole inside one word.
C17_PackRoundTrip ==
  (kpc = "decoded") =>
    LET valuesPerLong == WordBits \div bitsPerBlock
    IN  /\ unpacked = indices
        /\ Len(packed) = (Len(indices) + valuesPerLong - 1) \div valuesPerLong
        /\ \A i \in 1..Len(indices) :
             /\ ((i - 1) % valuesPerLong) * bitsPerBlock + bitsPerBlock <= WordBits
             /\ \A j \in indices[i] :
                  (j + ((i - 1) % valuesPerLong) * bitsPerBlock)
                    \in packed[(i - 1) \div valuesPerLong + 1]

\* C17 witness: 4096 indices of 32 bits each, two to a word, the second
\* reaching the sign bit of its word, were encoded and decoded.
C17_Witness ==
  /\ kpc = "decoded"
  /\ bitsPerBlock = 32
  /\ Len(indices) = SectionVolume
  /\ Len(packed) = 2048
  /\ 63 \in packed[1]
  /\ unpacked[2] = TopIndex(32)

\* C18: after a placement that added a block state to the palette, every
\* block but the placed one holds, read with the new width, the index it
\* held before, read with the old width, and the placed one holds the new
\* index.
C18_RepackPreserves ==
  (kpc = "section" /\ placed.blockIndex >= 0 /\ Len(BlockPalette) = Len(prevPalette) + 1) =>
    LET before == decodeIndices(prevData, calculateBitsPerEntry(Len(prevPalette)), SectionVolume)
        after == decodeIndices(BlockData, calculateBitsPerEntry(Len(BlockPalette)), SectionVolume)
    IN  /\ \A i \in 1..SectionVolume : i # placed.blockIndex + 1 => after[i] = before[i]
        /\ after[placed.blockIndex + 1] = BitsOf(placed.paletteIndex)

\* C18 witness: a section of alternating indices 0 and 1 got a third block
\* state at block 5, and its data went from 64 words of 1 bit to 128 of 2.
C18_Witness ==
  /\ kpc = "section"
  /\ Len(prevPalette) = 2
  /\ Len(BlockPalette) = 3
  /\ placed = [blockIndex |-> 5, paletteIndex |-> 2]
  /\ Len(prevData) = 64
  /\ Len(BlockData) = 128
  /\ prevData[1] = {j \in 0..63 : j % 2 = 1}

====
